---- MODULE Spec2Model ----
(***************************************************************************)
(* scikit-gmsh: the translation layer between boundary descriptions and    *)
(* the meshing kernel (gmsh).  The kernel session is process-wide state;   *)
(* every wrapper call is a sequence of kernel calls.  A call is modelled   *)
(* by the sequence of kernel calls it makes (its trace), the exception it  *)
(* ends with, and the state in which it leaves the kernel session.         *)
(***************************************************************************)
EXTENDS Integers, Sequences, FiniteSets, TLC

VARIABLES
    pc,       \* "idle": the caller is between calls; "done": a call has ended
    active,   \* the kernel session is initialized (gmsh's global state)
    call,     \* the arguments of the last call
    trace,    \* the kernel calls the last call made, in order
    outcome,  \* "returned", or the name of the exception the call raised
    reinit,   \* the last call initialized the kernel while a session was active
    mesh,     \* the mesh the last call returned
    d2,       \* the caller's Delaunay2D object
    d3,       \* the caller's Delaunay3D object
    lastToggle,  \* the last of enable_recombine, disable_recombine called on d2
    ctor,     \* the arguments of the last Delaunay2D construction
    geo,      \* the caller's geodataframe and GeoMesher object
    manager,  \* the caller's Geometry2D object, its last operation and what was read
    legacy    \* the last call of pvgmsh.delaunay_2d: its input and what it returned

objs == <<d2, d3, lastToggle>>
tools == <<ctor, geo, manager, legacy>>
vars == <<pc, active, call, trace, outcome, reinit, mesh, d2, d3, lastToggle, ctor, geo, manager, legacy>>

----------------------------------------------------------------------------
(* Program constants (src/src/skgmsh/__init__.py:23-32).                   *)
INITIAL_MESH_ONLY_2D == 3
FRONTAL_DELAUNAY_2D == 6
DELAUNAY_3D == 1
INITIAL_MESH_ONLY_3D == 3
SILENT == 0
SIMPLE == 0
FALSE_ == 0

(* Bounds of the model.                                                    *)
MaxHoles == 1      \* a polygon has 0..MaxHoles interior rings
MaxVerts == 4      \* a ring or polyline has 3..MaxVerts distinct vertices

----------------------------------------------------------------------------
(* Python values of the target_sizes argument.  A float is kept apart from *)
(* an int because the code tests isinstance(x, float); the magnitude of a  *)
(* size is a small natural.                                                *)
PyNone == [t |-> "none", v |-> 0, s |-> <<>>]
PyFloat(x) == [t |-> "float", v |-> x, s |-> <<>>]
PyInt(x) == [t |-> "int", v |-> x, s |-> <<>>]
PyList(xs) == [t |-> "seq", v |-> 0, s |-> xs]

isinstance_float(x) == x.t = "float"
Repeat(x, n) == [i \in 1..n |-> x]
Min(a, b) == IF a < b THEN a ELSE b

(* Kernel calls, as the wrapper issues them.  a, b: scalar arguments;      *)
(* tag: the entity tag passed in or returned; tags: a list argument.       *)
(* add_point: a is the position of the vertex in the input, b the size     *)
(* and name the Python type of the size.                                   *)
Ev(op, name, a, b, tag, tags) ==
    [op |-> op, name |-> name, a |-> a, b |-> b, tag |-> tag, tags |-> tags]
Raise(exc) == Ev("raise", exc, 0, 0, 0, <<>>)
Initialize == Ev("initialize", "", 0, 0, 0, <<>>)
SetNumber(name, val) == Ev("set_number", name, val, 0, 0, <<>>)
AddPoint(p, size, tag) == Ev("add_point", size.t, p, size.v, tag, <<>>)
AddLine(start, end, tag) == Ev("add_line", "", start, end, tag, <<>>)
AddCurveLoop(curves, tag) == Ev("add_curve_loop", "", 0, 0, tag, curves)
AddPlaneSurface(wires, tag) == Ev("add_plane_surface", "", 0, 0, tag, wires)
Synchronize == Ev("synchronize", "", 0, 0, 0, <<>>)
Embed(pts, dim, tag) == Ev("embed", "", 0, dim, tag, pts)
SetRecombine(dim, tag) == Ev("set_recombine", "", 0, dim, tag, <<>>)
Generate(dim) == Ev("generate", "", dim, 0, 0, <<>>)
GetNodes == Ev("getNodes", "", 0, 0, 0, <<>>)
GetElements == Ev("getElements", "", 0, 0, 0, <<>>)
Convert(err) == Ev("convert", err, 0, 0, 0, <<>>)
Clear == Ev("clear", "", 0, 0, 0, <<>>)
Finalize == Ev("finalize", "", 0, 0, 0, <<>>)
RemoveAllDuplicates == Ev("remove_all_duplicates", "", 0, 0, 0, <<>>)
AddSurfaceLoop(surfaces, tag) == Ev("add_surface_loop", "", 0, 0, tag, surfaces)
AddVolume(loops, tag) == Ev("add_volume", "", 0, 0, tag, loops)

(* The kernel converts a size with c_double(size): a number passes, any    *)
(* other object is a TypeError raised before the kernel is entered.        *)
AddPointOrTypeError(p, size, tag) ==
    IF size.t \in {"float", "int"} THEN AddPoint(p, size, tag) ELSE Raise("TypeError")

----------------------------------------------------------------------------
(* Execution of a straight-line block of kernel calls.  fault names the    *)
(* kernel call that the kernel rejects (its first occurrence raises the    *)
(* kernel's Exception); "none" is a run in which the kernel accepts        *)
(* everything.  The conversion of the kernel's result raises the error     *)
(* that the result makes it trip over.                                     *)
Raises(e, fault) ==
    \/ e.op = "raise"
    \/ e.op = fault
    \/ e.op = "convert" /\ e.name # "none"

FirstRaise(events, fault) ==
    LET bad == {i \in 1..Len(events) : Raises(events[i], fault)}
    IN IF bad = {} THEN 0 ELSE CHOOSE i \in bad : \A j \in bad : i <= j

RunBlock(events, fault) ==
    LET i == FirstRaise(events, fault)
    IN IF i = 0 THEN [trace |-> events, exc |-> "none"]
       ELSE IF events[i].op = "raise"
            THEN [trace |-> SubSeq(events, 1, i - 1), exc |-> events[i].name]
       ELSE IF events[i].op = "convert"
            THEN [trace |-> SubSeq(events, 1, i), exc |-> events[i].name]
       ELSE [trace |-> SubSeq(events, 1, i), exc |-> "Exception"]

----------------------------------------------------------------------------
(* A variant of the type table that also knows the element type 8.        *)
gmsh_to_pyvista_type_KnowsType8 ==
    (1 :> "LINE") @@ (2 :> "TRIANGLE") @@ (3 :> "QUAD") @@ (4 :> "TETRA")
    @@ (5 :> "HEXAHEDRON") @@ (6 :> "WEDGE") @@ (7 :> "PYRAMID") @@ (15 :> "VERTEX")
    @@ (8 :> "LINE")

(* The type table of generate_mesh: the kernel's element type code to the  *)
(* cell type of the mesh.                                                  *)
gmsh_to_pyvista_type ==
    (1 :> "LINE") @@ (2 :> "TRIANGLE") @@ (3 :> "QUAD") @@ (4 :> "TETRA")
    @@ (5 :> "HEXAHEDRON") @@ (6 :> "WEDGE") @@ (7 :> "PYRAMID") @@ (15 :> "VERTEX")

(* getElementProperties(type_)[3]: the number of nodes of an element of    *)
(* the type (8 is the three-node line of a second-order mesh).             *)
NumNodes(type_) ==
    CASE type_ = 15 -> 1
      [] type_ = 1 -> 2
      [] type_ \in {2, 8} -> 3
      [] type_ \in {3, 4} -> 4
      [] type_ = 7 -> 5
      [] type_ = 6 -> 6
      [] type_ = 5 -> 8

(* (np.diff(tags) > 0).all()                                               *)
Increasing(tags) == \A i \in 1..(Len(tags) - 1) : tags[i] < tags[i + 1]

(* One pass of the conversion loop over an element block: the assertion on *)
(* the element tags, then the lookup in the type table.                    *)
BlockError(block) ==
    IF ~Increasing(block.tags) THEN "AssertionError"
    ELSE IF block.type \notin DOMAIN gmsh_to_pyvista_type THEN "KeyError"
    ELSE "none"

(* np.reshape(node_tags, (-1, num_nodes)) - 1                              *)
Rows(node_tags, num_nodes) ==
    [k \in 1..(Len(node_tags) \div num_nodes) |->
        [j \in 1..num_nodes |-> node_tags[(k - 1) * num_nodes + j] - 1]]

(* The dictionary the conversion loop fills, cells[celltype] = rows: keys  *)
(* in the order of their first assignment, each with the rows assigned to  *)
(* it last.                                                                *)
RECURSIVE CellsDict(_)
CellsDict(blocks) ==
    IF blocks = <<>> THEN [keys |-> <<>>, rows |-> <<>>]
    ELSE LET n == Len(blocks)
             cells == CellsDict(SubSeq(blocks, 1, n - 1))
             celltype == gmsh_to_pyvista_type[blocks[n].type]
             rows == Rows(blocks[n].node_tags, NumNodes(blocks[n].type))
             at == {i \in 1..Len(cells.keys) : cells.keys[i] = celltype}
         IN IF at = {}
            THEN [keys |-> Append(cells.keys, celltype), rows |-> Append(cells.rows, rows)]
            ELSE [keys |-> cells.keys,
                  rows |-> [i \in 1..Len(cells.rows) |->
                               IF i \in at THEN rows ELSE cells.rows[i]]]

(* pv.UnstructuredGrid(cells, points) checks the indices of the cells it   *)
(* is given against the number of points and raises ValueError for an      *)
(* index below 0 or not below that number.                                 *)
InvalidIndex(cells, nr_points) ==
    \E k \in 1..Len(cells.rows) : \E r \in 1..Len(cells.rows[k]) :
        \E j \in 1..Len(cells.rows[k][r]) :
            cells.rows[k][r][j] < 0 \/ cells.rows[k][r][j] >= nr_points

(* The error the conversion of the kernel's answer raises: the assertion   *)
(* on the node tags, then the first element block that trips the loop,     *)
(* then the check of the indices.                                          *)
ConversionError(lib) ==
    IF ~Increasing(lib.node_tags) THEN "AssertionError"
    ELSE LET bad == {i \in 1..Len(lib.blocks) : BlockError(lib.blocks[i]) # "none"}
         IN IF bad # {}
            THEN BlockError(lib.blocks[CHOOSE i \in bad : \A j \in bad : i <= j])
            ELSE IF InvalidIndex(CellsDict(lib.blocks), Len(lib.node_tags))
            THEN "ValueError"
            ELSE "none"

(* A mesh: its number of points, its cells in order (cell type and point   *)
(* indices), and the names of its data arrays.                             *)
NoMesh == [n_points |-> 0, cells |-> <<>>, arrays |-> {}]

RECURSIVE CellsOf(_, _)
CellsOf(cells, k) ==
    IF k > Len(cells.keys) THEN <<>>
    ELSE [r \in 1..Len(cells.rows[k]) |-> [type |-> cells.keys[k], pts |-> cells.rows[k][r]]]
         \o CellsOf(cells, k + 1)

(* pv.UnstructuredGrid(cells, points), points = np.reshape(coord, (-1, 3)) *)
(* holding one point per node tag.                                         *)
UnstructuredGrid(cells, node_tags) ==
    [n_points |-> Len(node_tags), cells |-> CellsOf(cells, 1), arrays |-> {}]

(* mesh.remove_cells(ind): the cells outside ind, in order.  Whether the   *)
(* ghost-cell array that marks the cells to remove stays on the result     *)
(* depends on the library version: ghost tells.                            *)
remove_cells(mesh_, ind, ghost) ==
    LET kept == {i \in 1..Len(mesh_.cells) : i \notin ind}
        Nth(k) == CHOOSE i \in kept : Cardinality({j \in kept : j < i}) = k - 1
    IN [n_points |-> mesh_.n_points,
        cells |-> [k \in 1..Cardinality(kept) |-> mesh_.cells[Nth(k)]],
        arrays |-> mesh_.arrays \cup (IF ghost THEN {"vtkGhostType"} ELSE {})]

(* mesh.clear_data()                                                       *)
clear_data(mesh_) == [mesh_ EXCEPT !.arrays = {}]

(* A variant that removes the vertex cells only.                           *)
VertexAndLineCells_VerticesOnly(mesh_) ==
    {i \in 1..Len(mesh_.cells) : mesh_.cells[i].type = "VERTEX"}

(* The cells frontal_delaunay_2d removes from the generated mesh.          *)
VertexAndLineCells(mesh_) ==
    {i \in 1..Len(mesh_.cells) : mesh_.cells[i].type \in {"VERTEX", "LINE"}}

(* A variant that removes the cells of lower dimension only.               *)
NonTetraCells_LowerDimensionOnly(mesh_) ==
    {i \in 1..Len(mesh_.cells) : mesh_.cells[i].type \in {"VERTEX", "LINE", "TRIANGLE"}}

(* The cells delaunay_3d removes from the generated mesh.                  *)
NonTetraCells(mesh_) ==
    {i \in 1..Len(mesh_.cells) : mesh_.cells[i].type # "TETRA"}

(* A variant of generate_mesh that cleans up on the success path only.     *)
generate_mesh_NoFinally(dim, fault, lib) ==
    LET body == RunBlock(<<Generate(dim), GetNodes, GetElements,
                           Convert(ConversionError(lib))>>, fault)
    IN IF body.exc = "none"
       THEN [trace |-> body.trace \o <<Clear, Finalize>>, exc |-> body.exc,
             mesh |-> UnstructuredGrid(CellsDict(lib.blocks), lib.node_tags)]
       ELSE [trace |-> body.trace, exc |-> body.exc, mesh |-> NoMesh]

(* generate_mesh(dim): the try block (generate, the node and element       *)
(* queries, the conversion loop with its assertions, type table and        *)
(* getElementProperties query), then the finally block.  lib is what the   *)
(* kernel answers to the queries.                                          *)
generate_mesh(dim, fault, lib) ==
    LET body == RunBlock(<<Generate(dim), GetNodes, GetElements,
                           Convert(ConversionError(lib))>>, fault)
    IN [trace |-> body.trace \o <<Clear, Finalize>>, exc |-> body.exc,
        mesh |-> IF body.exc = "none"
                 THEN UnstructuredGrid(CellsDict(lib.blocks), lib.node_tags)
                 ELSE NoMesh]

(* A variant of the option calls that asks for Frontal-Delaunay whether a  *)
(* target size is supplied or not.                                         *)
Options2D_AlwaysFrontal(target_sizes) ==
    (IF target_sizes.t = "none"
     THEN <<SetNumber("Mesh.Algorithm", FRONTAL_DELAUNAY_2D),
            SetNumber("Mesh.MeshSizeExtendFromBoundary", 0),
            SetNumber("Mesh.MeshSizeFromPoints", 0),
            SetNumber("Mesh.MeshSizeFromCurvature", 0)>>
     ELSE <<SetNumber("Mesh.Algorithm", FRONTAL_DELAUNAY_2D)>>)
    \o <<SetNumber("General.Verbosity", SILENT)>>

(* The option calls that open frontal_delaunay_2d.                         *)
Options2D(target_sizes) ==
    (IF target_sizes.t = "none"
     THEN <<SetNumber("Mesh.Algorithm", INITIAL_MESH_ONLY_2D),
            SetNumber("Mesh.MeshSizeExtendFromBoundary", 0),
            SetNumber("Mesh.MeshSizeFromPoints", 0),
            SetNumber("Mesh.MeshSizeFromCurvature", 0)>>
     ELSE <<SetNumber("Mesh.Algorithm", FRONTAL_DELAUNAY_2D)>>)
    \o <<SetNumber("General.Verbosity", SILENT)>>

(* if target_sizes is None: target_sizes = 0.0                             *)
DefaultSizes(target_sizes) ==
    IF target_sizes.t = "none" THEN PyFloat(0) ELSE target_sizes

(* zip(xs, ys, strict=False) stops at the shorter argument.                *)
ZipLen(n, m) == Min(n, m)

(* A variant of RingSizes that gives a ring's first size to all vertices.  *)
RingSizes_FirstSizeForAll(target_size, n) ==
    IF isinstance_float(target_size) THEN PyList(Repeat(target_size, n))
    ELSE IF target_size.t = "seq" /\ Len(target_size.s) > 0
    THEN PyList(Repeat(target_size.s[1], n))
    ELSE target_size

(* One ring of a polygon: the sizes of its vertices, its points, its       *)
(* lines and its curve loop.  n is len(linearring.coords) - 1; ptBase and  *)
(* lnBase are the numbers of points and lines the kernel holds already     *)
(* (it hands out the next free tag); coordBase counts the input vertices   *)
(* of the rings before this one.                                           *)
RingSizes(target_size, n) ==
    IF isinstance_float(target_size) THEN PyList(Repeat(target_size, n)) ELSE target_size

RingPoints(target_size, n) ==
    LET sizes == RingSizes(target_size, n)
    IN IF sizes.t = "seq" THEN ZipLen(Len(sizes.s), n) ELSE 0

LoopLines(tags, lnBase) ==
    [i \in 1..Len(tags) |->
        AddLine(tags[IF i = 1 THEN Len(tags) ELSE i - 1], tags[i], lnBase + i)]

RingEvents(target_size, n, dim, ptBase, lnBase, coordBase, loopTag) ==
    LET sizes == RingSizes(target_size, n)
        m == RingPoints(target_size, n)
        tags == [k \in 1..m |-> ptBase + k]
    IN IF sizes.t # "seq" THEN <<Raise("TypeError")>>
       ELSE (IF m >= 1 /\ dim = 2 THEN <<Raise("ValueError")>> ELSE <<>>)
            \o [k \in 1..m |-> AddPointOrTypeError(coordBase + k, sizes.s[k], ptBase + k)]
            \o LoopLines(tags, lnBase)
            \o <<AddCurveLoop([i \in 1..m |-> lnBase + i], loopTag)>>

RECURSIVE PolygonRings(_, _, _, _, _, _, _)
PolygonRings(target_sizes, rings, dim, r, ptBase, lnBase, coordBase) ==
    IF r > ZipLen(Len(target_sizes), Len(rings)) THEN <<>>
    ELSE RingEvents(target_sizes[r], rings[r], dim, ptBase, lnBase, coordBase, r)
         \o PolygonRings(target_sizes, rings, dim, r + 1,
                         ptBase + RingPoints(target_sizes[r], rings[r]),
                         lnBase + RingPoints(target_sizes[r], rings[r]),
                         coordBase + rings[r])

(* frontal_delaunay_2d, shapely Polygon branch.                            *)
PolygonBranch(edge_source, target_sizes0) ==
    LET rings == edge_source.rings
        target_sizes == IF isinstance_float(target_sizes0)
                        THEN PyList(Repeat(target_sizes0, Len(rings)))
                        ELSE target_sizes0
    IN IF target_sizes.t # "seq" THEN <<Raise("TypeError")>>
       ELSE PolygonRings(target_sizes.s, rings, edge_source.dim, 1, 0, 0, 0)
            \o <<AddPlaneSurface([r \in 1..ZipLen(Len(target_sizes.s), Len(rings)) |-> r], 1),
                 Synchronize>>

(* frontal_delaunay_2d, PolyData branch.  lines is the VTK connectivity    *)
(* array [n, p0, ..., p(n-1)]; only its first polyline is read.            *)
PolyDataBranch(edge_source, target_sizes0) ==
    LET lines == edge_source.lines
        target_sizes == IF isinstance_float(target_sizes0)
                        THEN PyList(Repeat(target_sizes0, edge_source.npts))
                        ELSE target_sizes0
        m == ZipLen(Len(target_sizes.s), edge_source.npts)
    IN IF target_sizes.t # "seq" THEN <<Raise("TypeError")>>
       ELSE [k \in 1..m |-> AddPointOrTypeError(k, target_sizes.s[k], k)]
            \o [i \in 1..(lines[1] - 1) |-> AddLine(lines[i + 1] + 1, lines[i + 2] + 1, i)]
            \o <<AddCurveLoop([i \in 1..(lines[1] - 1) |-> i], 1),
                 AddPlaneSurface(<<1>>, 1),
                 Synchronize,
                 Embed([k \in 1..m |-> k], 2, 1)>>

(* A variant that never asks the kernel to recombine.                      *)
RecombineRequest_Never(recombine) == <<>>

(* if recombine: gmsh.model.mesh.set_recombine(2, 1)                       *)
RecombineRequest(recombine) == IF recombine THEN <<SetRecombine(2, 1)>> ELSE <<>>

frontal_delaunay_2d(edge_source, target_sizes, recombine, fault, lib) ==
    LET sizes == DefaultSizes(target_sizes)
        pre == RunBlock(<<Initialize>> \o Options2D(target_sizes)
                        \o (IF edge_source.kind = "polygon"
                            THEN PolygonBranch(edge_source, sizes)
                            ELSE PolyDataBranch(edge_source, sizes))
                        \o RecombineRequest(recombine),
                        fault)
        gen == generate_mesh(2, fault, lib)
    IN IF pre.exc # "none"
       THEN [trace |-> pre.trace, exc |-> pre.exc, mesh |-> NoMesh]
       ELSE [trace |-> pre.trace \o gen.trace, exc |-> gen.exc,
             mesh |-> IF gen.exc = "none"
                      THEN remove_cells(gen.mesh, VertexAndLineCells(gen.mesh), lib.ghost)
                      ELSE NoMesh]

----------------------------------------------------------------------------
(* delaunay_3d.                                                            *)
Options3D(target_sizes) ==
    (IF target_sizes.t = "none"
     THEN <<SetNumber("Mesh.Algorithm", INITIAL_MESH_ONLY_3D),
            SetNumber("Mesh.MeshSizeExtendFromBoundary", 0),
            SetNumber("Mesh.MeshSizeFromPoints", 0),
            SetNumber("Mesh.MeshSizeFromCurvature", 0)>>
     ELSE <<SetNumber("Mesh.Algorithm3D", DELAUNAY_3D)>>)
    \o <<SetNumber("General.Verbosity", SILENT),
         SetNumber("Mesh.AlgorithmSwitchOnFailure", FALSE_),
         SetNumber("Mesh.RecombinationAlgorithm", SIMPLE),
         SetNumber("Mesh.RecombineNodeRepositioning", FALSE_)>>

(* One face: a line per vertex, from the previous vertex of the face (the  *)
(* last one for the first) to it, then the curve loop and plane surface    *)
(* tagged i + 1.  face holds 0-based point ids; i is the 1-based position  *)
(* of the face.                                                            *)
FaceEvents(face, i, lnBase) ==
    [j \in 1..Len(face) |->
        AddLine(face[IF j = 1 THEN Len(face) ELSE j - 1] + 1, face[j] + 1, lnBase + j)]
    \o <<AddCurveLoop([j \in 1..Len(face) |-> lnBase + j], i),
         AddPlaneSurface(<<i>>, i)>>

RECURSIVE Faces3D(_, _, _)
Faces3D(faces, i, lnBase) ==
    IF i > Len(faces) THEN <<>>
    ELSE FaceEvents(faces[i], i, lnBase) \o Faces3D(faces, i + 1, lnBase + Len(faces[i]))

(* A variant of Build3D without the synchronize that follows the volume.   *)
Build3D_NoFinalSynchronize(edge_source, target_sizes0) ==
    LET target_sizes == IF isinstance_float(target_sizes0)
                        THEN PyList(Repeat(target_sizes0, edge_source.npts))
                        ELSE target_sizes0
        m == ZipLen(edge_source.npts, Len(target_sizes.s))
    IN IF target_sizes.t # "seq" THEN <<Raise("TypeError")>>
       ELSE [k \in 1..m |-> AddPointOrTypeError(k, target_sizes.s[k], k)]
            \o Faces3D(edge_source.faces, 1, 0)
            \o <<RemoveAllDuplicates,
                 Synchronize,
                 AddSurfaceLoop([i \in 1..Len(edge_source.faces) |-> i], 1),
                 AddVolume(<<1>>, 1)>>

(* The geometry delaunay_3d builds: points tagged i + 1, the faces, then   *)
(* the surface loop and the volume, each followed by a synchronize.        *)
Build3D(edge_source, target_sizes0) ==
    LET target_sizes == IF isinstance_float(target_sizes0)
                        THEN PyList(Repeat(target_sizes0, edge_source.npts))
                        ELSE target_sizes0
        m == ZipLen(edge_source.npts, Len(target_sizes.s))
    IN IF target_sizes.t # "seq" THEN <<Raise("TypeError")>>
       ELSE [k \in 1..m |-> AddPointOrTypeError(k, target_sizes.s[k], k)]
            \o Faces3D(edge_source.faces, 1, 0)
            \o <<RemoveAllDuplicates,
                 Synchronize,
                 AddSurfaceLoop([i \in 1..Len(edge_source.faces) |-> i], 1),
                 AddVolume(<<1>>, 1),
                 Synchronize>>

delaunay_3d(edge_source, target_sizes, fault, lib) ==
    LET pre == RunBlock(<<Initialize>> \o Options3D(target_sizes)
                        \o Build3D(edge_source, DefaultSizes(target_sizes)),
                        fault)
        gen == generate_mesh(3, fault, lib)
    IN IF pre.exc # "none"
       THEN [trace |-> pre.trace, exc |-> pre.exc, mesh |-> NoMesh]
       ELSE [trace |-> pre.trace \o gen.trace, exc |-> gen.exc,
             mesh |-> IF gen.exc = "none"
                      THEN clear_data(remove_cells(gen.mesh, NonTetraCells(gen.mesh),
                                                   lib.ghost))
                      ELSE NoMesh]

----------------------------------------------------------------------------
(* The kernel session after a call: initialize opens it, finalize closes   *)
(* it; it is global, so a call that does not finalize leaves it open.      *)
RECURSIVE SessionAfter(_, _)
SessionAfter(open, events) ==
    IF events = <<>> THEN open
    ELSE SessionAfter(IF Head(events).op = "initialize" THEN TRUE
                      ELSE IF Head(events).op = "finalize" THEN FALSE
                      ELSE open,
                      Tail(events))

----------------------------------------------------------------------------
(* Inputs.                                                                 *)
Source(kind, npts, lines, rings, dim, faces) ==
    [kind |-> kind, npts |-> npts, lines |-> lines, rings |-> rings,
     dim |-> dim, faces |-> faces, points |-> <<>>]

(* The same source with the coordinates of its points: the points array of *)
(* a PolyData, the vertices of the rings of a polygon one ring after the   *)
(* other.  A coordinate is a pair of integers <<x, y>>; the sources above  *)
(* leave the coordinates out where no code under study reads them.         *)
At(source, points) == [source EXCEPT !.points = points]

(* A PolyData polyline over n points: closed [n+1, 0, .., n-1, 0] (what    *)
(* pv.Polygon yields) or open [n, 0, .., n-1].                             *)
ClosedPolyline(n) ==
    Source("polydata", n, <<n + 1>> \o [i \in 1..n |-> i - 1] \o <<0>>, <<>>, 3, <<>>)
OpenPolyline(n) ==
    Source("polydata", n, <<n>> \o [i \in 1..n |-> i - 1], <<>>, 3, <<>>)

(* A shapely polygon: an exterior of n vertices, h triangular holes, its   *)
(* coordinates pairs (dim 2) or triples (dim 3).                           *)
Polygon(n, h, dim) ==
    Source("polygon", 0, <<>>, <<n>> \o Repeat(3, h), dim, <<>>)

(* A closed surface: the pyramid over an n-gon (n = 3: a tetrahedron).     *)
Pyramid(n) ==
    Source("polydata", n + 1, <<>>, <<>>, 3,
           <<[i \in 1..n |-> i - 1]>> \o [i \in 1..n |-> <<i - 1, i % n, n>>])

(* Where the vertices of ring r start in the order of the input, and the   *)
(* number of boundary points of an edge source.                            *)
RECURSIVE RingStart(_, _)
RingStart(rings, r) == IF r <= 1 THEN 0 ELSE RingStart(rings, r - 1) + rings[r - 1]
NumVertices(rings) == RingStart(rings, Len(rings) + 1)

NumBoundaryPoints(edge_source) ==
    IF edge_source.kind = "polygon" THEN NumVertices(edge_source.rings)
    ELSE edge_source.npts

VertCounts == 3..MaxVerts

EdgeSources2D ==
    {ClosedPolyline(n) : n \in VertCounts} \cup {OpenPolyline(n) : n \in VertCounts}
    \cup {Polygon(n, h, d) : n \in VertCounts, h \in 0..MaxHoles, d \in {2, 3}}

EdgeSources3D == {Pyramid(n) : n \in VertCounts}

(* Sizes: none, a float, an int, and non-empty lists whose i-th float is   *)
(* i, as long as the points or one short.                                  *)
Floats(n) == PyList([i \in 1..n |-> PyFloat(i)])
Scalars == {PyNone, PyFloat(1), PyInt(2)}
NonEmpty(lists) == {x \in lists : x.s # <<>>}

PointSizes(npts) == Scalars \cup NonEmpty({Floats(npts), Floats(npts - 1)})

(* For a polygon also the per-ring forms: one float per ring, or one list  *)
(* of per-vertex floats per ring, complete or one ring short.              *)
PerRing(rings, k) == PyList([r \in 1..k |-> Floats(rings[r])])
PolygonSizes(rings) ==
    Scalars \cup NonEmpty({Floats(NumVertices(rings)), Floats(Len(rings)),
                           Floats(Len(rings) - 1),
                           PerRing(rings, Len(rings)), PerRing(rings, Len(rings) - 1),
                           PyList(Repeat(PyInt(2), Len(rings)))})

TargetSizes2D(edge_source) ==
    IF edge_source.kind = "polygon" THEN PolygonSizes(edge_source.rings)
    ELSE PointSizes(edge_source.npts)

Faults ==
    {"none", "set_number", "add_point", "add_line", "add_curve_loop",
     "add_plane_surface", "synchronize", "embed", "set_recombine",
     "remove_all_duplicates", "add_surface_loop", "add_volume",
     "generate", "getNodes", "getElements"}

(* What the libraries answer to a call: the node tags and the element      *)
(* blocks (type code, element tags, flat node tags) the kernel returns     *)
(* from getNodes and getElements, and what remove_cells leaves behind.     *)
Block(type_, tags, node_tags) == [type |-> type_, tags |-> tags, node_tags |-> node_tags]
Answer(node_tags, blocks, ghost) == [node_tags |-> node_tags, blocks |-> blocks, ghost |-> ghost]
NoAnswer == Answer(<<>>, <<>>, FALSE)

(* What the kernel has to mesh: the number of nodes (without a target size *)
(* the kernel adds no node to the boundary points, with one it adds        *)
(* nodes), the number of triangles that triangulate the surface over these *)
(* nodes, and whether the call asked it to recombine the surface.          *)
Holes(edge_source) ==
    IF edge_source.kind = "polygon" /\ edge_source.rings # <<>>
    THEN Len(edge_source.rings) - 1 ELSE 0

Meshed(edge_source, target_sizes, recombined) ==
    LET interior == IF target_sizes = PyNone THEN 0 ELSE 1
    IN [n |-> NumBoundaryPoints(edge_source) + interior,
        triangles |-> NumBoundaryPoints(edge_source) + 2 * interior - 2
                      + 2 * Holes(edge_source),
        recombined |-> recombined]

(* The call asks the kernel to recombine a plane surface it has created.   *)
RecombineAsked(events) ==
    \E p \in 1..Len(events), r \in 1..Len(events) :
        /\ events[p].op = "add_plane_surface"
        /\ events[r] = SetRecombine(2, events[p].tag)

NodeTags(n) == [i \in 1..n |-> i]

(* The flat node tags of a block of elements.                              *)
FlatNodeTags(rows, width) ==
    [j \in 1..(Len(rows) * width) |-> rows[((j - 1) \div width) + 1][((j - 1) % width) + 1]]

(* Element blocks over n nodes.  The surface mesh is triangle 1, 2, ... in *)
(* order; recombination merges the triangles 2k-1 and 2k into quad k.      *)
Vertices == Block(15, <<1, 2>>, <<1, 2>>)
Lines == Block(1, <<3, 4>>, <<1, 2, 2, 3>>)
LinesUnsorted == Block(1, <<4, 3>>, <<1, 2, 2, 3>>)
SecondOrderLines == Block(8, <<5>>, <<1, 2, 3>>)
Triangles(n, from, to) ==
    Block(2, [j \in 1..(to - from + 1) |-> 10 + from + j],
          FlatNodeTags([j \in 1..(to - from + 1) |->
                          [c \in 1..3 |-> ((from + j + c - 3) % n) + 1]], 3))
Quads(n, quads) ==
    Block(3, [k \in 1..quads |-> 30 + k],
          FlatNodeTags([k \in 1..quads |-> [c \in 1..4 |-> ((2 * k + c - 3) % n) + 1]], 4))
Tetras == Block(4, <<50>>, <<1, 2, 3, 4>>)
Pyramids == Block(7, <<60>>, <<1, 2, 3, 4, 5>>)

(* The surface elements when the kernel has merged quads pairs of          *)
(* triangles.                                                              *)
Surface(meshed, quads) ==
    (IF meshed.triangles > 2 * quads
     THEN <<Triangles(meshed.n, 2 * quads + 1, meshed.triangles)>> ELSE <<>>)
    \o (IF quads > 0 THEN <<Quads(meshed.n, quads)>> ELSE <<>>)

(* The kernel's surface meshes: the triangulation; when it is asked to     *)
(* recombine, every pair of triangles merged, or, the kernel's algorithm   *)
(* being free to leave triangles, one pair left unmerged.                  *)
Surfaces(meshed) ==
    IF ~meshed.recombined THEN {Surface(meshed, 0)}
    ELSE {Surface(meshed, quads) :
            quads \in {meshed.triangles \div 2}
                      \cup (IF meshed.triangles >= 4
                            THEN {(meshed.triangles \div 2) - 1} ELSE {})}

(* A mesh of the requested dimension, one with an element type the type    *)
(* table does not know, and one whose element tags are not increasing.     *)
Answers(dim, meshed) ==
    LET good == <<Vertices, Lines>> \o Surface(meshed, 0)
                \o (IF dim = 3 THEN <<Tetras>> ELSE <<>>)
    IN {Answer(NodeTags(meshed.n), good, FALSE),
        Answer(NodeTags(meshed.n), good \o <<SecondOrderLines>>, FALSE),
        Answer(NodeTags(meshed.n), <<Vertices, LinesUnsorted>> \o Surface(meshed, 0), FALSE)}

(* The answers on which the returned mesh is studied: the surface meshes   *)
(* of the kernel (for a volume, with tetrahedra or pyramids or neither),   *)
(* with or without the vertex and line elements, also followed by a block  *)
(* of a type the type table does not know, and an answer whose element     *)
(* tags are not increasing; each with both behaviours of remove_cells.     *)
RECURSIVE Picked(_, _, _)
Picked(menu, mask, n) ==
    IF n = 0 THEN <<>>
    ELSE Picked(menu, mask, n - 1) \o (IF mask[n] THEN <<menu[n]>> ELSE <<>>)

Selections(menu) ==
    {Picked(menu, mask, Len(menu)) : mask \in [1..Len(menu) -> BOOLEAN]}

(* A block whose elements need more nodes than there are cannot occur.     *)
BlockFits(block, n) == \A i \in 1..Len(block.node_tags) : block.node_tags[i] <= n

VolumeBlocks(dim, n) ==
    IF dim = 2 THEN {<<>>}
    ELSE Selections(SelectSeq(<<Tetras, Pyramids>>, LAMBDA block : BlockFits(block, n)))

MeshAnswers(dim, meshed) ==
    {Answer(NodeTags(meshed.n), lower \o surface \o volume \o last, ghost) :
        lower \in Selections(<<Vertices, Lines>>),
        surface \in Surfaces(meshed),
        volume \in VolumeBlocks(dim, meshed.n),
        last \in {<<>>, <<SecondOrderLines>>},
        ghost \in BOOLEAN}
    \cup {Answer(NodeTags(meshed.n), <<Vertices, LinesUnsorted>> \o Surface(meshed, 0), ghost) :
             ghost \in BOOLEAN}

----------------------------------------------------------------------------
(* The classes Delaunay2D and Delaunay3D.  An object is the record of its  *)
(* private fields; made tells that the constructor has run.                *)
NoSource == Source("none", 0, <<>>, <<>>, 3, <<>>)
NoDelaunay2D ==
    [made |-> FALSE, edge_source |-> NoSource, cell_size |-> PyNone, recombine |-> FALSE]
NoDelaunay3D ==
    [made |-> FALSE, edge_source |-> NoSource, cell_size |-> PyNone, mesh |-> NoMesh]

(* np.linalg.norm of a difference of two coordinates.  The model keeps     *)
(* lengths exact by admitting only edges of integer length (IntegerEdge).  *)
Dist2(p, q) == (q[1] - p[1]) * (q[1] - p[1]) + (q[2] - p[2]) * (q[2] - p[2])
IntegerEdge(p, q) == \E n \in 0..Dist2(p, q) : n * n = Dist2(p, q)
Norm(p, q) == CHOOSE n \in 0..Dist2(p, q) : n * n = Dist2(p, q)
Max(a, b) == IF a > b THEN a ELSE b

(* A variant of _compute_cell_size_from_points that takes the edge that    *)
(* follows each point only.                                                *)
compute_cell_size_from_points_NextEdge(points) ==
    PyList([i \in 1..(Len(points) - 1) |-> PyFloat(Norm(points[i], points[i + 1]))])

(* Delaunay2D._compute_cell_size_from_points, for two coordinates or more: *)
(* the lengths of the consecutive differences, the last length put in      *)
(* front, and the element-wise maximum of the list without its last and    *)
(* without its first entry.  The result is an array of numpy floats, which *)
(* are floats to isinstance.                                               *)
compute_cell_size_from_points(points) ==
    LET diff == [i \in 1..(Len(points) - 1) |-> Norm(points[i], points[i + 1])]
        lengths == <<diff[Len(diff)]>> \o diff
    IN PyList([i \in 1..(Len(lengths) - 1) |-> PyFloat(Max(lengths[i], lengths[i + 1]))])

(* linearring.coords of ring r of a polygon: its vertices and the first    *)
(* one again.                                                              *)
RingCoords(edge_source, r) ==
    LET start == RingStart(edge_source.rings, r)
        n == edge_source.rings[r]
    IN [i \in 1..(n + 1) |-> edge_source.points[start + (IF i = n + 1 THEN 1 ELSE i)]]

(* edge_source.points[line] for line = lines[1 : lines[0] + 1], the first  *)
(* polyline of a PolyData.                                                 *)
FirstLinePoints(edge_source) ==
    [i \in 1..edge_source.lines[1] |-> edge_source.points[edge_source.lines[i + 1] + 1]]

(* shapely.Polygon(shell, holes): the shell and the holes are sequences of *)
(* coordinates, every hole a triangle; dim tells pairs from triples.       *)
RECURSIVE Concat(_)
Concat(seqs) == IF seqs = <<>> THEN <<>> ELSE Head(seqs) \o Concat(Tail(seqs))

shapely_Polygon(shell, holes) ==
    At(Polygon(Len(shell.pts), Len(holes), shell.dim), shell.pts \o Concat(holes))

(* Variants of the constructor: one that prefers the shell to the edge     *)
(* source, one that keeps a supplied cell size when it constrains.         *)
Delaunay2D_init_ShellFirst(edge_source, shell, holes, cell_size, constrain_edge_size) ==
    [made |-> TRUE,
     edge_source |-> shapely_Polygon(shell, holes),
     cell_size |-> cell_size,
     recombine |-> FALSE]

(* Delaunay2D.__init__: the edge source, or the polygon of the shell and   *)
(* the holes; with constrain_edge_size the cell sizes computed from the    *)
(* rings of the polygon, or from the first polyline of the PolyData.       *)
Delaunay2D_init(edge_source, shell, holes, cell_size, constrain_edge_size) ==
    LET source == IF edge_source # NoSource THEN edge_source
                  ELSE shapely_Polygon(shell, holes)
    IN [made |-> TRUE,
        edge_source |-> source,
        cell_size |->
            IF ~constrain_edge_size THEN cell_size
            ELSE IF source.kind = "polygon"
            THEN PyList([r \in 1..Len(source.rings) |->
                           compute_cell_size_from_points(RingCoords(source, r))])
            ELSE compute_cell_size_from_points(FirstLinePoints(edge_source)),
        recombine |-> FALSE]

(* The record of a construction: the arguments of Delaunay2D(...).         *)
NoShell == [pts |-> <<>>, dim |-> 3]
NoConstruction ==
    [made |-> FALSE, edge_source |-> NoSource, shell |-> NoShell, holes |-> <<>>,
     cell_size |-> PyNone, constrain_edge_size |-> FALSE]

(* pv.PolyData(mesh.points, mesh.cells): the cells become the faces of a   *)
(* new surface mesh, which carries no data arrays.                         *)
PolyData(mesh_) ==
    [n_points |-> mesh_.n_points,
     cells |-> [i \in 1..Len(mesh_.cells) |->
                  [type |-> CASE Len(mesh_.cells[i].pts) = 3 -> "TRIANGLE"
                              [] Len(mesh_.cells[i].pts) = 4 -> "QUAD"
                              [] OTHER -> "POLYGON",
                   pts |-> mesh_.cells[i].pts]],
     arrays |-> {}]

(* Delaunay2D.mesh: the object after the access, and the call it made.     *)
Delaunay2D_mesh(self, fault, lib) ==
    LET result == frontal_delaunay_2d(self.edge_source, self.cell_size, self.recombine,
                                      fault, lib)
    IN [self |-> self, trace |-> result.trace, exc |-> result.exc,
        mesh |-> IF result.exc = "none" THEN PolyData(result.mesh) ELSE NoMesh]

(* Delaunay2D.cell_size setter, Delaunay3D.cell_size setter.               *)
cell_size_setter(self, size) == [self EXCEPT !.cell_size = size]

(* A variant of enable_recombine that flips the flag.                      *)
enable_recombine_Flips(self) == [self EXCEPT !.recombine = ~self.recombine]

enable_recombine(self) == [self EXCEPT !.recombine = TRUE]

disable_recombine(self) == [self EXCEPT !.recombine = FALSE]

Delaunay3D_init(edge_source, cell_size) ==
    [made |-> TRUE, edge_source |-> edge_source, cell_size |-> cell_size, mesh |-> NoMesh]

(* A variant of Delaunay3D.mesh that serves the stored mesh once there is  *)
(* one.                                                                    *)
Delaunay3D_mesh_Cached(self, fault, lib) ==
    LET result == delaunay_3d(self.edge_source, self.cell_size, fault, lib)
    IN IF self.mesh # NoMesh
       THEN [self |-> self, trace |-> <<>>, exc |-> "none", mesh |-> self.mesh]
       ELSE [self |-> IF result.exc = "none" THEN [self EXCEPT !.mesh = result.mesh]
                      ELSE self,
             trace |-> result.trace, exc |-> result.exc, mesh |-> result.mesh]

(* Delaunay3D.mesh stores the generated mesh in _mesh and returns it; when *)
(* delaunay_3d raises, nothing is stored.                                  *)
Delaunay3D_mesh(self, fault, lib) ==
    LET result == delaunay_3d(self.edge_source, self.cell_size, fault, lib)
    IN [self |-> IF result.exc = "none" THEN [self EXCEPT !.mesh = result.mesh] ELSE self,
        trace |-> result.trace, exc |-> result.exc, mesh |-> result.mesh]

----------------------------------------------------------------------------
(* The class GeoMesher of skgmsh.geospatial.  A geodataframe is its rows   *)
(* (the type of the geometry, its bounds minx, miny, maxx, maxy, and the   *)
(* value of the cell size column, NaN where it is missing) and the names   *)
(* of its columns.  Coordinates are multiples of 50, so that the division  *)
(* by 50.0 is exact in the integers.                                       *)
NaN == [t |-> "nan", v |-> 0, s |-> <<>>]
GeoDataFrame(rows, columns) == [rows |-> rows, columns |-> columns]
NoFrame == GeoDataFrame(<<>>, {})
NoGeoMesher ==
    [made |-> FALSE, gdf |-> NoFrame, cellsize_column |-> "", default_cellsize |-> PyNone]

SetMin(S) == CHOOSE x \in S : \A y \in S : x <= y
SetMax(S) == CHOOSE x \in S : \A y \in S : x >= y

(* gdf.total_bounds: minx, miny, maxx, maxy over the rows.                 *)
total_bounds(gdf) ==
    <<SetMin({gdf.rows[i].bounds[1] : i \in 1..Len(gdf.rows)}),
      SetMin({gdf.rows[i].bounds[2] : i \in 1..Len(gdf.rows)}),
      SetMax({gdf.rows[i].bounds[3] : i \in 1..Len(gdf.rows)}),
      SetMax({gdf.rows[i].bounds[4] : i \in 1..Len(gdf.rows)})>>

(* A variant of the constructor that looks at the first geometry only.     *)
GeoMesher_init_FirstGeometryOnly(geodataframe, cellsize_column, default_cellsize) ==
    LET gdf == geodataframe
        bounds == total_bounds(gdf)
        extent == Max(bounds[3] - bounds[1], bounds[4] - bounds[2])
    IN IF gdf.rows[1].type \notin {"Polygon", "MultiPolygon"}
       THEN [exc |-> "ValueError", self |-> NoGeoMesher, geodataframe |-> geodataframe]
       ELSE [exc |-> "none",
             self |-> [made |-> TRUE, gdf |-> gdf, cellsize_column |-> cellsize_column,
                       default_cellsize |-> IF default_cellsize = PyNone
                                            THEN PyFloat(extent \div 50)
                                            ELSE default_cellsize],
             geodataframe |-> geodataframe]

(* GeoMesher.__init__: the copy of the frame, the check of the geometry    *)
(* types, the default cell size.  The result tells the exception, the new  *)
(* object and the caller's frame after the call.                           *)
GeoMesher_init(geodataframe, cellsize_column, default_cellsize) ==
    LET gdf == geodataframe
        bounds == total_bounds(gdf)
        extent == Max(bounds[3] - bounds[1], bounds[4] - bounds[2])
    IN IF \E i \in 1..Len(gdf.rows) : gdf.rows[i].type \notin {"Polygon", "MultiPolygon"}
       THEN [exc |-> "ValueError", self |-> NoGeoMesher, geodataframe |-> geodataframe]
       ELSE [exc |-> "none",
             self |-> [made |-> TRUE, gdf |-> gdf, cellsize_column |-> cellsize_column,
                       default_cellsize |-> IF default_cellsize = PyNone
                                            THEN PyFloat(extent \div 50)
                                            ELSE default_cellsize],
             geodataframe |-> geodataframe]

(* series.fillna(value) and series.min() of pandas: a new series with the  *)
(* missing values replaced, and its smallest value.                        *)
fillna(series, value) == [i \in 1..Len(series) |-> IF series[i] = NaN THEN value ELSE series[i]]
SeriesMin(series) == PyFloat(SetMin({series[i].v : i \in 1..Len(series)}))

(* The cell size of GeoMesher._prepare_geometry, which generate and        *)
(* generate_mesh hand to Delaunay2D as cell_size.  The frame of the object *)
(* is read, never written.                                                 *)
prepare_geometry_cell_sizes(self) ==
    IF self.cellsize_column \in self.gdf.columns
    THEN SeriesMin(fillna([i \in 1..Len(self.gdf.rows) |-> self.gdf.rows[i].cellsize],
                          self.default_cellsize))
    ELSE self.default_cellsize

NoGeoCall ==
    [given |-> NoFrame, caller |-> NoFrame, default_cellsize |-> PyNone,
     self |-> NoGeoMesher, exc |-> "none", cell_sizes |-> PyNone]

----------------------------------------------------------------------------
(* The class Geometry2D.  A string is the sequence of its tokens: words    *)
(* (the kind of an element, " " for white space, "//" for the comment      *)
(* mark) and numbers (the id of an element, its arguments).  A virtual     *)
(* file is its lines and the read position, counted in lines.              *)
Word(text) == [text |-> text, num |-> 0]
Num(n) == [text |-> "", num |-> n]
Nums(ns) == [i \in 1..Len(ns) |-> Num(ns[i])]
Header == <<Word("//"), Word("Gmsh Geometry File")>>
StringIO(lines, pos) == [lines |-> lines, pos |-> pos]

(* Geometry2D.__init__                                                     *)
Geometry2D_init == [elements |-> <<>>, virtual_file |-> StringIO(<<>>, 0)]

(* The add methods: an element gets the id len(self.elements) + 1, a       *)
(* physical group is written with its dimension in that place.             *)
add_point(self, x, y, z, lc) ==
    [self EXCEPT !.elements = Append(@, <<Word("Point"), Num(Len(@) + 1)>> \o Nums(<<x, y, z, lc>>))]
add_line(self, point1_id, point2_id) ==
    [self EXCEPT !.elements = Append(@, <<Word("Line"), Num(Len(@) + 1)>> \o Nums(<<point1_id, point2_id>>))]
add_circle(self, point1_id, point2_id, point3_id) ==
    [self EXCEPT !.elements =
        Append(@, <<Word("Circle"), Num(Len(@) + 1)>>
                  \o Nums(<<point1_id, point2_id, point3_id>>))]
add_surface(self, line_ids) ==
    [self EXCEPT !.elements =
        @ \o <<<<Word("Line Loop"), Num(Len(@) + 1)>> \o Nums(line_ids),
               <<Word("Plane Surface"), Num(Len(@) + 2), Num(Len(@) + 1)>>>>]
add_physical_group(self, dimension, entity_ids, name) ==
    [self EXCEPT !.elements = Append(@, <<Word("Physical Group"), Num(dimension)>> \o Nums(entity_ids))]

(* to_virtual_file: a new file, the header, one line per element, and the  *)
(* position back at the start.                                             *)
to_virtual_file(self) ==
    [self EXCEPT !.virtual_file = StringIO(<<Header>> \o self.elements, 0)]

(* line.strip(), line.startswith("//")                                     *)
RECURSIVE lstrip(_)
lstrip(line) == IF line # <<>> /\ Head(line) = Word(" ") THEN lstrip(Tail(line)) ELSE line
RECURSIVE rstrip(_)
rstrip(line) ==
    IF line # <<>> /\ line[Len(line)] = Word(" ") THEN rstrip(SubSeq(line, 1, Len(line) - 1))
    ELSE line
strip(line) == rstrip(lstrip(line))
startswith_comment(line) == line # <<>> /\ Head(line) = Word("//")

(* The loop of from_virtual_file over the lines of a file.                 *)
ReadElements(lines) ==
    SelectSeq([i \in 1..Len(lines) |-> strip(lines[i])],
              LAMBDA line : line # <<>> /\ ~startswith_comment(line))

(* from_virtual_file(virtual_file), for the object's own file (own) and    *)
(* for another file: the elements are replaced by what the file holds; the *)
(* file read is left at its end.                                           *)
from_virtual_file(self, virtual_file, own) ==
    [elements |-> ReadElements(virtual_file.lines),
     virtual_file |-> IF own THEN StringIO(virtual_file.lines, Len(virtual_file.lines))
                      ELSE self.virtual_file]

(* A variant of get_virtual_file_content that reads on from the position.  *)
get_virtual_file_content_NoSeek(self) ==
    [self |-> [self EXCEPT !.virtual_file.pos = Len(self.virtual_file.lines)],
     content |-> SubSeq(self.virtual_file.lines, self.virtual_file.pos + 1,
                        Len(self.virtual_file.lines))]

(* get_virtual_file_content: seek(0), then read() to the end.              *)
get_virtual_file_content(self) ==
    [self |-> [self EXCEPT !.virtual_file.pos = Len(self.virtual_file.lines)],
     content |-> self.virtual_file.lines]

(* The caller's object: self, the last operation on it, whether            *)
(* to_virtual_file has run since the elements last changed (saved), and    *)
(* what the reads of the content since the last other operation returned.  *)
NoManager ==
    [made |-> FALSE, self |-> Geometry2D_init, last |-> "none", saved |-> FALSE,
     reads |-> 0, content |-> <<>>]

----------------------------------------------------------------------------
(* The legacy package pvgmsh: delaunay_2d(edge_source, size) meshes the    *)
(* quad cells of a poly data, one kernel session per cell, and reads each  *)
(* mesh back from a temporary file.  edge_source is the sequence of the    *)
(* types of its cells; a mesh is named by the cell it was generated from.  *)
Write == Ev("write", "", 0, 0, 0, <<>>)
Read == Ev("read", "", 0, 0, 0, <<>>)

(* The kernel calls for one quad cell up to pv.read.                       *)
QuadBlock(size) ==
    <<Initialize>>
    \o [i \in 1..4 |-> AddPoint(i, size, i)]
    \o <<AddLine(1, 2, 1), AddLine(2, 3, 2), AddLine(3, 4, 3), AddLine(4, 1, 4),
         AddCurveLoop(<<1, 2, 3, 4>>, 1), AddPlaneSurface(<<1>>, 1),
         Synchronize, Generate(2), Write, Read>>

NoFault == [cell |-> 0, op |-> "none"]
FaultIn(fault, i) == IF fault.cell = i THEN fault.op ELSE "none"
Returned(value, issued, by) == [exc |-> "none", value |-> value, trace |-> issued, by |-> by]
Mesh(i) == [single |-> TRUE, meshes |-> <<i>>]
Meshes(meshes) == [single |-> FALSE, meshes |-> meshes]

(* The loop of delaunay_2d from cell i on: meshes, the kernel calls so far *)
(* and the cell that issued each of them.  An exception leaves the loop    *)
(* where it is raised.                                                     *)
RECURSIVE delaunay_2d_loop(_, _, _, _, _, _, _)
delaunay_2d_loop(edge_source, size, fault, i, meshes, before, by) ==
    IF i > Len(edge_source) THEN Returned(Meshes(meshes), before, by)
    ELSE IF edge_source[i] # "QUAD"
         THEN delaunay_2d_loop(edge_source, size, fault, i + 1, meshes, before, by)
    ELSE LET run == RunBlock(QuadBlock(size), FaultIn(fault, i))
             issued == before \o run.trace
             cells == by \o [k \in 1..Len(run.trace) |-> i]
         IN IF run.exc # "none"
            THEN [exc |-> run.exc, value |-> Meshes(<<>>), trace |-> issued, by |-> cells]
            ELSE IF Len(edge_source) = 1
                 THEN Returned(Mesh(i), issued \o <<Clear, Finalize>>, cells \o <<i, i>>)
            ELSE delaunay_2d_loop(edge_source, size, fault, i + 1, Append(meshes, i),
                                  issued \o <<Clear, Finalize>>, cells \o <<i, i>>)

(* delaunay_2d(edge_source, size)                                          *)
delaunay_2d(edge_source, size, fault) ==
    delaunay_2d_loop(edge_source, size, fault, 1, <<>>, <<>>, <<>>)

NoLegacyCall ==
    [called |-> FALSE, edge_source |-> <<>>, size |-> PyNone, fault |-> NoFault,
     entered |-> FALSE, value |-> Meshes(<<>>), by |-> <<>>]

----------------------------------------------------------------------------
(* The state machine: a caller that makes one call after another.          *)
NoCall == [fn |-> "none", edge_source |-> Source("none", 0, <<>>, <<>>, 3, <<>>),
           target_sizes |-> PyNone, recombine |-> FALSE, fault |-> "none",
           lib |-> NoAnswer]

Init ==
    /\ pc = "idle"
    /\ active = FALSE
    /\ call = NoCall
    /\ trace = <<>>
    /\ outcome = "none"
    /\ reinit = FALSE
    /\ mesh = NoMesh
    /\ d2 = NoDelaunay2D
    /\ d3 = NoDelaunay3D
    /\ lastToggle = "none"
    /\ ctor = NoConstruction
    /\ geo = NoGeoCall
    /\ manager = NoManager
    /\ legacy = NoLegacyCall

Finish(fn, edge_source, target_sizes, recombine, fault, lib, result) ==
    /\ call' = [fn |-> fn, edge_source |-> edge_source, target_sizes |-> target_sizes,
                recombine |-> recombine, fault |-> fault, lib |-> lib]
    /\ trace' = result.trace
    /\ mesh' = result.mesh
    /\ outcome' = IF result.exc = "none" THEN "returned" ELSE result.exc
    /\ reinit' = (active /\ \E i \in 1..Len(result.trace) : result.trace[i].op = "initialize")
    /\ active' = SessionAfter(active, result.trace)
    /\ pc' = "done"

CallFrontalDelaunay2D ==
    /\ pc = "idle"
    /\ \E edge_source \in EdgeSources2D, recombine \in BOOLEAN, fault \in Faults :
         \E target_sizes \in TargetSizes2D(edge_source) :
          \E lib \in Answers(2, Meshed(edge_source, target_sizes, RecombineAsked(
                     frontal_delaunay_2d(edge_source, target_sizes, recombine, fault,
                                         NoAnswer).trace))) :
            Finish("frontal_delaunay_2d", edge_source, target_sizes, recombine, fault, lib,
                   frontal_delaunay_2d(edge_source, target_sizes, recombine, fault, lib))
    /\ UNCHANGED objs
    /\ UNCHANGED tools

CallDelaunay3D ==
    /\ pc = "idle"
    /\ \E edge_source \in EdgeSources3D, fault \in Faults :
         \E target_sizes \in PointSizes(edge_source.npts) :
          \E lib \in Answers(3, Meshed(edge_source, target_sizes, FALSE)) :
            Finish("delaunay_3d", edge_source, target_sizes, FALSE, fault, lib,
                   delaunay_3d(edge_source, target_sizes, fault, lib))
    /\ UNCHANGED objs
    /\ UNCHANGED tools

(* The caller takes the mesh or handles the exception and goes on (the     *)
(* examples catch ValueError and RuntimeError and continue).               *)
CallerContinues ==
    /\ pc = "done"
    /\ pc' = "idle"
    /\ call' = NoCall
    /\ trace' = <<>>
    /\ outcome' = "none"
    /\ reinit' = FALSE
    /\ mesh' = NoMesh
    /\ legacy' = NoLegacyCall
    /\ UNCHANGED <<active, objs, ctor, geo, manager>>

Next == CallFrontalDelaunay2D \/ CallDelaunay3D \/ CallerContinues

Spec == Init /\ [][Next]_vars

----------------------------------------------------------------------------
(* The same calls on the boundaries of the test suite, with the kernel's   *)
(* answer ranging over MeshAnswers: the specification under which the      *)
(* returned mesh is studied.                                               *)
MeshSources2D == {ClosedPolyline(4), Polygon(3, 0, 3)}
MeshSources3D == {Pyramid(3)}
MeshSizes == {PyNone, PyFloat(1)}
MeshFaults == {"none", "generate"}

MeshFrontalDelaunay2D ==
    /\ pc = "idle"
    /\ \E edge_source \in MeshSources2D, target_sizes \in MeshSizes, recombine \in BOOLEAN,
          fault \in MeshFaults :
          \E lib \in MeshAnswers(2, Meshed(edge_source, target_sizes, RecombineAsked(
                         frontal_delaunay_2d(edge_source, target_sizes, recombine, fault,
                                             NoAnswer).trace))) :
            Finish("frontal_delaunay_2d", edge_source, target_sizes, recombine, fault, lib,
                   frontal_delaunay_2d(edge_source, target_sizes, recombine, fault, lib))
    /\ UNCHANGED objs
    /\ UNCHANGED tools

MeshDelaunay3D ==
    /\ pc = "idle"
    /\ \E edge_source \in MeshSources3D, target_sizes \in MeshSizes, fault \in MeshFaults :
          \E lib \in MeshAnswers(3, Meshed(edge_source, target_sizes, FALSE)) :
            Finish("delaunay_3d", edge_source, target_sizes, FALSE, fault, lib,
                   delaunay_3d(edge_source, target_sizes, fault, lib))
    /\ UNCHANGED objs
    /\ UNCHANGED tools

----------------------------------------------------------------------------
(* A caller that works with a Delaunay2D and a Delaunay3D object: it       *)
(* constructs them, assigns cell sizes, switches recombination and reads   *)
(* the mesh property, one operation at a time.                             *)
ObjectSources2D == {NoSource, ClosedPolyline(4)}
Shells == {[pts |-> <<<<0, 0>>, <<2, 0>>, <<2, 1>>, <<0, 1>>>>, dim |-> 3]}
ObjectHoles == {Repeat(<<<<0, 0>>, <<4, 0>>, <<4, 3>>>>, h) : h \in 0..MaxHoles}
CellSizes == {PyNone, PyFloat(1), PyFloat(2)}
ObjectFaults == {"none", "generate"}

NewDelaunay2D ==
    /\ pc = "idle"
    /\ \E edge_source \in ObjectSources2D, shell \in Shells, holes \in ObjectHoles,
          cell_size \in CellSizes :
            d2' = Delaunay2D_init(edge_source, shell, holes, cell_size, FALSE)
    /\ lastToggle' = "none"
    /\ UNCHANGED <<pc, active, call, trace, outcome, reinit, mesh, d3>>
    /\ UNCHANGED tools

SetCellSize2D ==
    /\ pc = "idle"
    /\ d2.made
    /\ \E size \in CellSizes : d2' = cell_size_setter(d2, size)
    /\ UNCHANGED <<pc, active, call, trace, outcome, reinit, mesh, d3, lastToggle>>
    /\ UNCHANGED tools

EnableRecombine ==
    /\ pc = "idle"
    /\ d2.made
    /\ d2' = enable_recombine(d2)
    /\ lastToggle' = "enable"
    /\ UNCHANGED <<pc, active, call, trace, outcome, reinit, mesh, d3>>
    /\ UNCHANGED tools

DisableRecombine ==
    /\ pc = "idle"
    /\ d2.made
    /\ d2' = disable_recombine(d2)
    /\ lastToggle' = "disable"
    /\ UNCHANGED <<pc, active, call, trace, outcome, reinit, mesh, d3>>
    /\ UNCHANGED tools

Delaunay2DMesh ==
    /\ pc = "idle"
    /\ d2.made
    /\ \E fault \in ObjectFaults,
          lib \in Answers(2, Meshed(d2.edge_source, d2.cell_size, RecombineAsked(
                    Delaunay2D_mesh(d2, "none", NoAnswer).trace))) :
         LET result == Delaunay2D_mesh(d2, fault, lib)
         IN /\ Finish("Delaunay2D.mesh", d2.edge_source, d2.cell_size, d2.recombine,
                      fault, lib, result)
            /\ d2' = result.self
    /\ UNCHANGED <<d3, lastToggle>>
    /\ UNCHANGED tools

NewDelaunay3D ==
    /\ pc = "idle"
    /\ \E edge_source \in MeshSources3D, cell_size \in CellSizes :
            d3' = Delaunay3D_init(edge_source, cell_size)
    /\ UNCHANGED <<pc, active, call, trace, outcome, reinit, mesh, d2, lastToggle>>
    /\ UNCHANGED tools

SetCellSize3D ==
    /\ pc = "idle"
    /\ d3.made
    /\ \E size \in CellSizes : d3' = cell_size_setter(d3, size)
    /\ UNCHANGED <<pc, active, call, trace, outcome, reinit, mesh, d2, lastToggle>>
    /\ UNCHANGED tools

Delaunay3DMesh ==
    /\ pc = "idle"
    /\ d3.made
    /\ \E fault \in ObjectFaults,
          lib \in Answers(3, Meshed(d3.edge_source, d3.cell_size, FALSE)) :
         LET result == Delaunay3D_mesh(d3, fault, lib)
         IN /\ Finish("Delaunay3D.mesh", d3.edge_source, d3.cell_size, FALSE,
                      fault, lib, result)
            /\ d3' = result.self
    /\ UNCHANGED <<d2, lastToggle>>
    /\ UNCHANGED tools

NextObj ==
    \/ NewDelaunay2D \/ SetCellSize2D \/ EnableRecombine \/ DisableRecombine
    \/ Delaunay2DMesh
    \/ NewDelaunay3D \/ SetCellSize3D \/ Delaunay3DMesh
    \/ CallerContinues

SpecObj == Init /\ [][NextObj]_vars

----------------------------------------------------------------------------
(* The specification under which the returned mesh is studied: the calls   *)
(* of the two functions and the mesh property of a Delaunay2D object, on   *)
(* the kernel answers of MeshAnswers.                                      *)
MeshDelaunay2DMesh ==
    /\ pc = "idle"
    /\ d2.made
    /\ \E fault \in MeshFaults,
          lib \in MeshAnswers(2, Meshed(d2.edge_source, d2.cell_size, RecombineAsked(
                        Delaunay2D_mesh(d2, "none", NoAnswer).trace))) :
         LET result == Delaunay2D_mesh(d2, fault, lib)
         IN /\ Finish("Delaunay2D.mesh", d2.edge_source, d2.cell_size, d2.recombine,
                      fault, lib, result)
            /\ d2' = result.self
    /\ UNCHANGED <<d3, lastToggle>>
    /\ UNCHANGED tools

NextMesh ==
    \/ MeshFrontalDelaunay2D \/ MeshDelaunay3D
    \/ NewDelaunay2D \/ EnableRecombine \/ DisableRecombine \/ MeshDelaunay2DMesh
    \/ CallerContinues

SpecMesh == Init /\ [][NextMesh]_vars

----------------------------------------------------------------------------
(* Reading a trace.                                                        *)
Idx(op) == {i \in 1..Len(trace) : trace[i].op = op}
HasOp(op) == Idx(op) # {}
EntityOps ==
    {"add_point", "add_line", "add_curve_loop", "add_plane_surface",
     "add_surface_loop", "add_volume"}
ExtractOps == {"getNodes", "getElements", "convert"}

(* The phase of a kernel call in the life of a session.                    *)
Phase(op) ==
    CASE op = "initialize" -> 0
      [] op = "set_number" -> 1
      [] op = "generate" -> 3
      [] op \in ExtractOps -> 4
      [] op = "clear" -> 5
      [] op = "finalize" -> 6
      [] OTHER -> 2

(* A synchronize precedes position g with no entity created in between.    *)
SyncedBefore(g) ==
    \E s \in 1..(g - 1) :
        /\ trace[s].op = "synchronize"
        /\ \A i \in (s + 1)..(g - 1) : trace[i].op \notin EntityOps

(* C1: every call of frontal_delaunay_2d and delaunay_3d that initializes  *)
(* the kernel session has finalized it when the call returns or raises,    *)
(* also when the error is raised before generate_mesh is entered.          *)
C1_FinalizedOnEveryExit ==
    (pc = "done" /\ HasOp("initialize")) => ~active

(* The exception raised inside generate_mesh: the kernel's, when it        *)
(* rejects generate or a query, else the one the conversion trips over.    *)
RaisedInGenerateMesh ==
    IF call.fault \in {"generate", "getNodes", "getElements"} THEN "Exception"
    ELSE ConversionError(call.lib)

(* C2: when generation, extraction or conversion raises inside             *)
(* generate_mesh, the session is cleared and then finalized, no session    *)
(* stays active, and the caller gets the exception that was raised.        *)
C2_CleanupAndOriginalException ==
    (pc = "done" /\ HasOp("generate") /\ outcome # "returned") =>
        /\ Len(trace) >= 2
        /\ Idx("clear") = {Len(trace) - 1}
        /\ Idx("finalize") = {Len(trace)}
        /\ ~active
        /\ outcome = RaisedInGenerateMesh

C2_Witness ==
    /\ pc = "done"
    /\ call.fault = "generate"
    /\ outcome = "Exception"
    /\ trace[Len(trace) - 2].op = "generate"
    /\ trace[Len(trace)].op = "finalize"
    /\ ~active

(* C3: over any sequence of calls, failed ones included, the kernel is     *)
(* never initialized while a session opened by an earlier call is active.  *)
C3_NeverInitializedWhileActive == ~reinit

(* C4: in a completed call the kernel calls come in the order initialize,  *)
(* options, build and synchronize, generate, extract, clear, finalize,     *)
(* each phase present; generate is only ever invoked with a synchronize    *)
(* after the last entity created; extraction lies between generate and     *)
(* clear.                                                                  *)
C4_KernelEventOrder ==
    pc = "done" =>
        /\ \A g \in Idx("generate") : SyncedBefore(g)
        /\ \A x \in 1..Len(trace) : trace[x].op \in ExtractOps =>
              /\ \E g \in Idx("generate") : g < x
              /\ \A c \in Idx("clear") : x < c
        /\ outcome = "returned" =>
              /\ \A i \in 1..(Len(trace) - 1) :
                    Phase(trace[i].op) <= Phase(trace[i + 1].op)
              /\ \A ph \in 0..6 : \E i \in 1..Len(trace) : Phase(trace[i].op) = ph
              /\ Idx("initialize") = {1}
              /\ Cardinality(Idx("generate")) = 1
              /\ \A g \in Idx("generate") :
                    /\ trace[g + 1].op = "getNodes"
                    /\ trace[g + 2].op = "getElements"
              /\ Idx("clear") = {Len(trace) - 1}
              /\ Idx("finalize") = {Len(trace)}

C4_Witness ==
    /\ pc = "done"
    /\ outcome = "returned"
    /\ call.fn = "delaunay_3d"
    /\ Cardinality(Idx("synchronize")) = 2
    /\ \E v \in Idx("add_volume") : \E g \in Idx("generate") : v < g

----------------------------------------------------------------------------
(* The call repeated with other sizes, on a kernel that raises nowhere.    *)
SameCallWith(target_sizes) ==
    IF call.fn = "delaunay_3d"
    THEN delaunay_3d(call.edge_source, target_sizes, call.fault, call.lib)
    ELSE frontal_delaunay_2d(call.edge_source, target_sizes, call.recombine, call.fault,
                             call.lib)

(* C5: a polygon boundary given as (x, y) pairs is accepted: every ring    *)
(* vertex becomes one kernel point and mesh generation is reached without  *)
(* an error of the wrapper.                                                *)
C5_PairsAccepted ==
    (/\ pc = "done"
     /\ call.edge_source.kind = "polygon"
     /\ call.edge_source.dim = 2
     /\ call.target_sizes.t \in {"none", "float"}
     /\ call.fault = "none") =>
        /\ Cardinality(Idx("add_point")) = NumBoundaryPoints(call.edge_source)
        /\ HasOp("generate")
        /\ outcome = "returned"

(* C6: a scalar target size, integer or floating point, is the size of     *)
(* every boundary point, and the call does what it does with the list      *)
(* that repeats the scalar once per point.                                 *)
C6_ScalarSizeAppliedToEveryPoint ==
    (/\ pc = "done"
     /\ call.target_sizes.t \in {"float", "int"}
     /\ call.edge_source.dim = 3
     /\ call.fault = "none") =>
        /\ Cardinality(Idx("add_point")) = NumBoundaryPoints(call.edge_source)
        /\ \A i \in Idx("add_point") : trace[i].b = call.target_sizes.v
        /\ trace = SameCallWith(PyList(Repeat(call.target_sizes,
                                   NumBoundaryPoints(call.edge_source)))).trace

(* C7: with a sequence of target sizes, boundary vertex i is created with  *)
(* the i-th size of the sequence, for a PolyData source, a polygon source  *)
(* and a 3D surface source alike.                                          *)
FlatFloats(x) == x.t = "seq" /\ \A k \in 1..Len(x.s) : x.s[k].t = "float"

C7_VertexGetsItsSize ==
    (/\ pc = "done"
     /\ FlatFloats(call.target_sizes)
     /\ Len(call.target_sizes.s) = NumBoundaryPoints(call.edge_source)) =>
        \A i \in Idx("add_point") :
            /\ trace[i].a <= Len(call.target_sizes.s)
            /\ trace[i].b = call.target_sizes.s[trace[i].a].v

(* C7, amended: every vertex created for a PolyData source (2D or 3D) has  *)
(* the size at its own position in the sequence; for a polygon source the  *)
(* sequence is indexed by ring: vertex i of ring r has the float given     *)
(* for ring r, or the i-th size of the sequence given for ring r.          *)
C7_SizesByVertexOrByRing ==
    (pc = "done" /\ call.target_sizes.t = "seq") =>
        \A i \in Idx("add_point") :
            LET a == trace[i].a
                s == call.target_sizes.s
                rings == call.edge_source.rings
            IN IF call.edge_source.kind = "polygon"
               THEN \E r \in 1..Len(rings) :
                       /\ RingStart(rings, r) < a
                       /\ a <= RingStart(rings, r) + rings[r]
                       /\ r <= Len(s)
                       /\ IF s[r].t = "seq"
                          THEN /\ a - RingStart(rings, r) <= Len(s[r].s)
                               /\ trace[i].b = s[r].s[a - RingStart(rings, r)].v
                          ELSE trace[i].b = s[r].v
               ELSE a <= Len(s) /\ trace[i].b = s[a].v

C7_Witness ==
    /\ pc = "done"
    /\ outcome = "returned"
    /\ call.edge_source.kind = "polygon"
    /\ Len(call.edge_source.rings) = 2
    /\ call.target_sizes = PerRing(call.edge_source.rings, 2)
    /\ \E i \in Idx("add_point") : trace[i].a = 5 /\ trace[i].b = 5 - call.edge_source.rings[1]

(* C8: for a polygon with k interior rings exactly k + 1 curve loops are   *)
(* created and the plane surface is defined by all of them, whatever the   *)
(* form of the target size.                                                *)
C8_OneCurveLoopPerRing ==
    (pc = "done" /\ call.edge_source.kind = "polygon") =>
        \A i \in Idx("add_plane_surface") :
            /\ Cardinality(Idx("add_curve_loop")) = Len(call.edge_source.rings)
            /\ trace[i].tags = [r \in 1..Len(call.edge_source.rings) |-> r]

(* C9: the number of point-creation calls equals the number of boundary    *)
(* points, the calls are made in input order (point i with tag i), and     *)
(* every endpoint of a line is a point created before in the same call.    *)
C9_OnePointPerBoundaryPoint ==
    (/\ pc = "done"
     /\ call.edge_source.kind = "polydata"
     /\ call.target_sizes.t \in {"none", "float", "seq"}
     /\ call.fault = "none") =>
        /\ Cardinality(Idx("add_point")) = NumBoundaryPoints(call.edge_source)
        /\ \A i \in Idx("add_point") :
              /\ trace[i].tag = trace[i].a
              /\ trace[i].a = Cardinality({j \in Idx("add_point") : j <= i})
        /\ \A l \in Idx("add_line") :
              /\ \E i \in Idx("add_point") : i < l /\ trace[i].tag = trace[l].a
              /\ \E i \in Idx("add_point") : i < l /\ trace[i].tag = trace[l].b

(* C10: every curve loop handed to the kernel is a closed chain: each      *)
(* line starts where the line before it in the loop ends, and the first    *)
(* starts where the last ends.                                             *)
LineAt(t) == trace[CHOOSE i \in Idx("add_line") : trace[i].tag = t]

ClosedChain(curves) ==
    \A k \in 1..Len(curves) :
        LineAt(curves[k]).a = LineAt(curves[IF k = 1 THEN Len(curves) ELSE k - 1]).b

C10_CurveLoopsClosed ==
    pc = "done" => \A i \in Idx("add_curve_loop") : ClosedChain(trace[i].tags)

----------------------------------------------------------------------------
(* The positions at which the call writes the kernel option name.          *)
OptionWrites(name) == {i \in Idx("set_number") : trace[i].name = name}

MeshSizeSwitches ==
    {"Mesh.MeshSizeExtendFromBoundary", "Mesh.MeshSizeFromPoints",
     "Mesh.MeshSizeFromCurvature"}

(* C11: frontal_delaunay_2d writes the 2D algorithm option once, with the  *)
(* initial-mesh-only value exactly when no target size is supplied and     *)
(* with the Frontal-Delaunay value exactly when one is supplied; the three *)
(* size-from-boundary, -points and -curvature options are switched off     *)
(* exactly when no target size is supplied; and every option is written    *)
(* before any geometric entity is created.                                 *)
C11_AlgorithmBySizeBeforeEntities ==
    (pc = "done" /\ call.fn = "frontal_delaunay_2d" /\ call.fault # "set_number") =>
        /\ Cardinality(OptionWrites("Mesh.Algorithm")) = 1
        /\ \A i \in OptionWrites("Mesh.Algorithm") :
              /\ (trace[i].a = INITIAL_MESH_ONLY_2D) <=> (call.target_sizes.t = "none")
              /\ (trace[i].a = FRONTAL_DELAUNAY_2D) <=> (call.target_sizes.t # "none")
        /\ \A name \in MeshSizeSwitches :
              /\ (OptionWrites(name) # {}) <=> (call.target_sizes.t = "none")
              /\ \A i \in OptionWrites(name) : trace[i].a = 0
        /\ \A i \in Idx("set_number"), j \in 1..Len(trace) :
              trace[j].op \in EntityOps => i < j

C11_Witness ==
    /\ pc = "done"
    /\ call.fn = "frontal_delaunay_2d"
    /\ call.target_sizes = PyNone
    /\ outcome = "returned"
    /\ trace[2] = SetNumber("Mesh.Algorithm", INITIAL_MESH_ONLY_2D)
    /\ HasOp("add_point")

----------------------------------------------------------------------------
(* C12: delaunay_3d writes the kernel's 3D algorithm option in both        *)
(* branches: with the initial-mesh-only value when target_sizes is None    *)
(* and with the Delaunay 3D value otherwise, so that the two branches      *)
(* differ in the value written and not in the option.                      *)
C12_SameAlgorithmOptionInBothBranches ==
    (pc = "done" /\ call.fn = "delaunay_3d" /\ outcome = "returned") =>
        /\ Cardinality(OptionWrites("Mesh.Algorithm3D")) = 1
        /\ OptionWrites("Mesh.Algorithm") = {}
        /\ \A i \in OptionWrites("Mesh.Algorithm3D") :
              trace[i].a = IF call.target_sizes.t = "none"
                           THEN INITIAL_MESH_ONLY_3D ELSE DELAUNAY_3D

----------------------------------------------------------------------------
(* The element blocks of the kernel's answer, and the cells they hold.     *)
BlocksAnswered == {call.lib.blocks[i] : i \in 1..Len(call.lib.blocks)}
CellsReturned == {mesh.cells[i] : i \in 1..Len(mesh.cells)}

(* The mesh generate_mesh hands to the wrapper, before the wrapper removes *)
(* cells from it.                                                          *)
Generated == generate_mesh(IF call.fn = "delaunay_3d" THEN 3 ELSE 2, call.fault, call.lib).mesh
CellsGenerated == {Generated.cells[i] : i \in 1..Len(Generated.cells)}

(* The conversion was reached: the kernel accepted generate and the        *)
(* queries.                                                                *)
ConversionReached == pc = "done" /\ HasOp("convert")

CellTypeOfCode ==
    {<<1, "LINE">>, <<2, "TRIANGLE">>, <<3, "QUAD">>, <<4, "TETRA">>,
     <<5, "HEXAHEDRON">>, <<6, "WEDGE">>, <<7, "PYRAMID">>, <<15, "VERTEX">>}

----------------------------------------------------------------------------
(* The elements of the kernel's answer that have one of the type codes, as *)
(* cells: the k-th element of a block has the k-th group of node tags.     *)
ElementsOfCodes(codes) ==
    UNION {{<<b, k>> : k \in 1..Len(b.tags)} : b \in {x \in BlocksAnswered : x.type \in codes}}

NodeIndices(b, k) ==
    [j \in 1..NumNodes(b.type) |-> b.node_tags[(k - 1) * NumNodes(b.type) + j] - 1]

(* C14: the mesh delaunay_3d returns holds the tetrahedral elements of the *)
(* kernel's answer, each one once, and nothing else: cells of every other  *)
(* type are removed; and the mesh carries no data arrays.                  *)
C14_OnlyTetrahedraNoData ==
    (pc = "done" /\ call.fn = "delaunay_3d" /\ outcome = "returned") =>
        /\ \A c \in CellsReturned : c.type = "TETRA"
        /\ \A e \in ElementsOfCodes({4}) :
              [type |-> "TETRA", pts |-> NodeIndices(e[1], e[2])] \in CellsReturned
        /\ Len(mesh.cells) = Cardinality(ElementsOfCodes({4}))
        /\ mesh.arrays = {}

C14_Witness ==
    /\ pc = "done"
    /\ call.fn = "delaunay_3d"
    /\ outcome = "returned"
    /\ call.lib.ghost
    /\ {b.type : b \in BlocksAnswered} = {15, 1, 2, 4, 7}
    /\ Len(mesh.cells) = 1
    /\ Len(Generated.cells) > 1

----------------------------------------------------------------------------
(* C15: the mesh frontal_delaunay_2d returns, and the mesh the mesh        *)
(* property of Delaunay2D returns, hold the elements of the kernel's       *)
(* answer that are neither vertices nor lines, each one once, and nothing  *)
(* else: the vertex and line cells are removed, every other cell is kept,  *)
(* and all cells of the result are triangles or quadrilaterals.            *)
C15_NoVertexOrLineCells ==
    (pc = "done" /\ call.fn \in {"frontal_delaunay_2d", "Delaunay2D.mesh"}
     /\ outcome = "returned") =>
        /\ \A c \in CellsReturned : c.type \in {"TRIANGLE", "QUAD"}
        /\ \A e \in ElementsOfCodes({2}) :
              [type |-> "TRIANGLE", pts |-> NodeIndices(e[1], e[2])] \in CellsReturned
        /\ \A e \in ElementsOfCodes({3}) :
              [type |-> "QUAD", pts |-> NodeIndices(e[1], e[2])] \in CellsReturned
        /\ Len(mesh.cells) = Cardinality(ElementsOfCodes({2, 3}))

C15_Witness ==
    /\ pc = "done"
    /\ call.fn = "Delaunay2D.mesh"
    /\ outcome = "returned"
    /\ {b.type : b \in BlocksAnswered} = {15, 1, 2, 3}
    /\ Len(mesh.cells) = 3
    /\ Len(Generated.cells) = 7

----------------------------------------------------------------------------
(* The call asks once for the recombination of the plane surface it has    *)
(* created, after the geometry is synchronized and before generation.      *)
RecombineRequestedOnSurface ==
    \E p \in Idx("add_plane_surface"), s \in Idx("synchronize"),
       r \in Idx("set_recombine"), g \in Idx("generate") :
        /\ p < s /\ s < r /\ r < g
        /\ trace[r] = SetRecombine(2, trace[p].tag)
        /\ Idx("set_recombine") = {r}

----------------------------------------------------------------------------
(* The largest extent of the edge source over the coordinate directions.   *)
(* Coordinates are not part of the model; a boundary of three or more      *)
(* distinct points has a positive extent, taken here as one unit per       *)
(* boundary point.                                                         *)
MaxExtent(edge_source) == NumBoundaryPoints(edge_source)

(* C18: when the target size argument of frontal_delaunay_2d is omitted,   *)
(* every boundary point is created with a target size equal to the largest *)
(* extent of the edge source, and the call completes without error.        *)
(* Stated for a boundary given with three coordinates per point, on a      *)
(* kernel that rejects nothing.                                            *)
C18_DefaultSizeIsMaxExtent ==
    (pc = "done" /\ call.fn = "frontal_delaunay_2d" /\ call.target_sizes = PyNone
     /\ call.edge_source.dim = 3
     /\ call.fault = "none" /\ ConversionError(call.lib) = "none") =>
        /\ outcome = "returned"
        /\ Cardinality(Idx("add_point")) = NumBoundaryPoints(call.edge_source)
        /\ \A i \in Idx("add_point") : trace[i].b = MaxExtent(call.edge_source)

----------------------------------------------------------------------------
(* C19: recombination of a Delaunay2D object is disabled after             *)
(* construction; after any sequence of enable_recombine and                *)
(* disable_recombine calls the flag is set exactly when the most recent    *)
(* call was enable_recombine, and a mesh access then asks the kernel to    *)
(* recombine exactly in that case; calling either method again changes     *)
(* nothing.                                                                *)
C19_RecombineFollowsLastToggle ==
    /\ d2.made =>
          /\ d2.recombine <=> (lastToggle = "enable")
          /\ enable_recombine(enable_recombine(d2)) = enable_recombine(d2)
          /\ disable_recombine(disable_recombine(d2)) = disable_recombine(d2)
    /\ (pc = "done" /\ call.fn = "Delaunay2D.mesh") =>
          /\ call.recombine <=> (lastToggle = "enable")
          /\ HasOp("generate") => (HasOp("set_recombine") <=> (lastToggle = "enable"))

C19_Witness ==
    /\ pc = "done"
    /\ call.fn = "Delaunay2D.mesh"
    /\ lastToggle = "enable"
    /\ outcome = "returned"
    /\ HasOp("set_recombine")

(* A mesh access of an object runs one generation of its own, with the     *)
(* object's current cell size.                                             *)
FreshGeneration(cell_size) ==
    /\ Len(trace') >= 1
    /\ trace'[1].op = "initialize"
    /\ Cardinality({i \in 1..Len(trace') : trace'[i].op = "generate"}) = 1
    /\ \A i \in 1..Len(trace') :
          trace'[i].op = "add_point" =>
              trace'[i].b = (IF cell_size = PyNone THEN 0 ELSE cell_size.v)

(* C20: the mesh property is not cached: every access of Delaunay2D.mesh   *)
(* and Delaunay3D.mesh runs one fresh generation with the current cell     *)
(* size and recombine flag, so an assigned cell size takes effect at the   *)
(* next access; the access leaves edge_source, cell_size and recombine     *)
(* unchanged; enable_recombine, disable_recombine and the cell_size setter *)
(* change only their own field.                                            *)
C20_MeshNotCachedFieldsKept ==
    [][/\ (pc = "idle" /\ pc' = "done" /\ call'.fn = "Delaunay2D.mesh") =>
            /\ FreshGeneration(d2.cell_size)
            /\ (\E i \in 1..Len(trace') : trace'[i].op = "set_recombine") <=> d2.recombine
            /\ d2' = d2
       /\ (pc = "idle" /\ pc' = "done" /\ call'.fn = "Delaunay3D.mesh") =>
            /\ FreshGeneration(d3.cell_size)
            /\ d3'.edge_source = d3.edge_source
            /\ d3'.cell_size = d3.cell_size
       /\ (EnableRecombine \/ DisableRecombine) =>
            /\ d2'.edge_source = d2.edge_source
            /\ d2'.cell_size = d2.cell_size
            /\ d3' = d3
       /\ SetCellSize2D =>
            /\ d2'.edge_source = d2.edge_source
            /\ d2'.recombine = d2.recombine
            /\ d3' = d3
       /\ SetCellSize3D =>
            /\ d3'.edge_source = d3.edge_source
            /\ d3'.mesh = d3.mesh
            /\ d2' = d2
      ]_vars

C20_Witness ==
    /\ pc = "done"
    /\ call.fn = "Delaunay3D.mesh"
    /\ outcome = "Exception"
    /\ d3.mesh # NoMesh
    /\ d3.cell_size = PyFloat(2)
    /\ trace[1].op = "initialize"
    /\ HasOp("generate")

----------------------------------------------------------------------------
(* A caller that constructs Delaunay2D objects from coordinates, with and  *)
(* without constrain_edge_size, and reads their mesh.  The rings are the   *)
(* closed walks from the origin over a small grid whose edges all have     *)
(* integer length.  The constructor reads nothing but its arguments, so    *)
(* the caller constructs one object and then reads its mesh as often as it *)
(* likes.                                                                  *)
MaxX == 2
MaxY == 1
Grid == (0..MaxX) \X (0..MaxY)
RingsOf(n) ==
    {r \in [1..n -> Grid] :
        /\ r[1] = <<0, 0>>
        /\ \A i \in 1..n : r[i] # r[(i % n) + 1] /\ IntegerEdge(r[i], r[(i % n) + 1])}
ShellRings == UNION {RingsOf(n) : n \in VertCounts}

Triangle345 == <<<<0, 0>>, <<4, 0>>, <<4, 3>>>>
ConstructShells == {[pts |-> r, dim |-> 3] : r \in ShellRings \cup {Triangle345}}
PolylineRings == RingsOf(3) \cup {Triangle345, <<<<0, 0>>, <<2, 0>>, <<2, 1>>, <<0, 1>>>>}
(* A PolyData with a second polyline after the first.                      *)
WithSecondLine(source) == [source EXCEPT !.lines = @ \o <<2, 0, 1>>]
ConstructSources ==
    {NoSource} \cup {At(ClosedPolyline(Len(r)), r) : r \in PolylineRings}
    \cup {At(OpenPolyline(Len(r)), r) : r \in PolylineRings}
    \cup {WithSecondLine(At(ClosedPolyline(Len(r)), r)) : r \in PolylineRings}
ConstructSizes == {PyNone, PyFloat(1)}

ConstructDelaunay2D ==
    /\ pc = "idle"
    /\ ~ctor.made
    /\ \E edge_source \in ConstructSources, shell \in ConstructShells,
          holes \in ObjectHoles, cell_size \in ConstructSizes,
          constrain_edge_size \in BOOLEAN :
            /\ d2' = Delaunay2D_init(edge_source, shell, holes, cell_size,
                                     constrain_edge_size)
            /\ ctor' = [made |-> TRUE, edge_source |-> edge_source, shell |-> shell,
                        holes |-> holes, cell_size |-> cell_size,
                        constrain_edge_size |-> constrain_edge_size]
    /\ lastToggle' = "none"
    /\ UNCHANGED <<pc, active, call, trace, outcome, reinit, mesh, d3, geo, manager, legacy>>

NextCtor == ConstructDelaunay2D \/ Delaunay2DMesh \/ CallerContinues

SpecCtor == Init /\ [][NextCtor]_vars

----------------------------------------------------------------------------
(* The coordinates of a closed ring: its vertices and the first one again. *)
Closed(v) == v \o <<v[1]>>

(* The rings of the polygon a construction describes: the shell first,     *)
(* then the holes in order.                                                *)
InputRings == <<ctor.shell.pts>> \o ctor.holes

(* C21: Delaunay2D construction uses edge_source when it is given and      *)
(* ignores shell and holes, otherwise the edge source is the polygon of    *)
(* shell and holes; with constrain_edge_size any supplied cell_size is     *)
(* replaced by computed sizes, one array per ring for a polygon (exterior  *)
(* first, then the holes in order) and the sizes of the first polyline     *)
(* only for a PolyData; without it the stored cell size is the supplied    *)
(* one.                                                                    *)
C21_ConstructionOfDelaunay2D ==
    ctor.made =>
        /\ d2.made
        /\ ctor.edge_source # NoSource => d2.edge_source = ctor.edge_source
        /\ ctor.edge_source = NoSource =>
              /\ d2.edge_source.kind = "polygon"
              /\ Len(d2.edge_source.rings) = Len(InputRings)
              /\ \A r \in 1..Len(InputRings) :
                    /\ d2.edge_source.rings[r] = Len(InputRings[r])
                    /\ RingCoords(d2.edge_source, r) = Closed(InputRings[r])
        /\ ~ctor.constrain_edge_size => d2.cell_size = ctor.cell_size
        /\ (ctor.constrain_edge_size /\ ctor.edge_source = NoSource) =>
              /\ d2.cell_size.t = "seq"
              /\ Len(d2.cell_size.s) = Len(InputRings)
              /\ \A r \in 1..Len(InputRings) :
                    d2.cell_size.s[r] = compute_cell_size_from_points(Closed(InputRings[r]))
        /\ (ctor.constrain_edge_size /\ ctor.edge_source # NoSource) =>
              LET lines == ctor.edge_source.lines
                  first == [i \in 1..lines[1] |-> ctor.edge_source.points[lines[i + 1] + 1]]
              IN d2.cell_size = compute_cell_size_from_points(first)

C21_Witness ==
    /\ ctor.made
    /\ ctor.edge_source = NoSource
    /\ ctor.constrain_edge_size
    /\ ctor.cell_size = PyFloat(1)
    /\ Len(ctor.holes) = 1
    /\ Len(d2.cell_size.s) = 2
    /\ Len(d2.cell_size.s[1].s) = Len(ctor.shell.pts)
    /\ Len(d2.cell_size.s[2].s) = 3

----------------------------------------------------------------------------
(* The larger of the lengths of the two edges of the ring of vertices v    *)
(* that meet in vertex i; for the first vertex these are the closing edge  *)
(* and the first edge.                                                     *)
LongerIncidentEdge(v, i) ==
    Max(Norm(v[IF i = 1 THEN Len(v) ELSE i - 1], v[i]),
        Norm(v[i], v[(i % Len(v)) + 1]))

(* The closed rings a constraining construction has computed sizes for,    *)
(* as their vertices, and the arrays of sizes it has stored for them.      *)
ClosedRingsSized ==
    IF ctor.edge_source = NoSource THEN InputRings
    ELSE IF ctor.edge_source.lines[ctor.edge_source.lines[1] + 1] = ctor.edge_source.lines[2]
    THEN <<[i \in 1..(ctor.edge_source.lines[1] - 1) |->
              ctor.edge_source.points[ctor.edge_source.lines[i + 1] + 1]]>>
    ELSE <<>>
SizesStored ==
    IF ctor.edge_source = NoSource THEN d2.cell_size.s ELSE <<d2.cell_size>>

(* C22: for a closed ring of N + 1 coordinates whose last equals its       *)
(* first, _compute_cell_size_from_points returns exactly N sizes, size i   *)
(* the larger of the lengths of the two ring edges incident to vertex i,   *)
(* so that the sizes are as many as the points created for the ring.       *)
C22_SizeIsLongerIncidentEdge ==
    (ctor.made /\ ctor.constrain_edge_size) =>
        \A r \in 1..Len(ClosedRingsSized) :
            LET v == ClosedRingsSized[r]
                start == RingStart([k \in 1..Len(ClosedRingsSized) |->
                                      Len(ClosedRingsSized[k])], r)
                created == {i \in Idx("add_point") :
                               start < trace[i].a /\ trace[i].a <= start + Len(v)}
            IN /\ SizesStored[r].t = "seq"
               /\ Len(SizesStored[r].s) = Len(v)
               /\ \A i \in 1..Len(v) :
                     SizesStored[r].s[i] = PyFloat(LongerIncidentEdge(v, i))
               /\ (pc = "done" /\ call.fn = "Delaunay2D.mesh" /\ HasOp("synchronize")) =>
                     /\ Cardinality(created) = Len(v)
                     /\ \A i \in created :
                           trace[i].b = LongerIncidentEdge(v, trace[i].a - start)

C22_Witness ==
    /\ ctor.made
    /\ ctor.constrain_edge_size
    /\ ctor.edge_source = NoSource
    /\ ctor.shell.pts = <<<<0, 0>>, <<1, 0>>, <<2, 0>>>>
    /\ Len(ctor.holes) = 1
    /\ d2.cell_size.s[1] = PyList(<<PyFloat(2), PyFloat(1), PyFloat(2)>>)
    /\ d2.cell_size.s[2] = PyList(<<PyFloat(5), PyFloat(4), PyFloat(5)>>)
    /\ pc = "done"
    /\ outcome = "returned"
    /\ Cardinality(Idx("add_point")) = 6

----------------------------------------------------------------------------
(* The conversion of generate_mesh studied on every kind of answer that    *)
(* its assertions let pass: node tags that are 1..n, that start at 2, or   *)
(* that skip a number (the kernel promises unique positive tags, not       *)
(* consecutive ones), and, to see the assertion, node tags out of order;   *)
(* the surface elements in one block or in two blocks of the same type,    *)
(* with or without the vertex and line elements.                           *)
Numberings(n) ==
    {NodeTags(n),
     [i \in 1..n |-> i + 1],
     [i \in 1..n |-> IF i = n THEN n + 1 ELSE i],
     [i \in 1..n |-> IF i = 1 THEN 2 ELSE IF i = 2 THEN 1 ELSE i]}

(* The elements of a block over the nodes numbered by tags.                *)
Retag(block, tags) ==
    [block EXCEPT !.node_tags = [i \in 1..Len(block.node_tags) |-> tags[block.node_tags[i]]]]

ConvBlocks(meshed) ==
    {<<Vertices, Lines>> \o Surface(meshed, 0),
     <<Triangles(meshed.n, 1, 1)>>}
    \cup (IF meshed.triangles >= 2
          THEN {<<Vertices, Lines, Triangles(meshed.n, 1, 1),
                  Triangles(meshed.n, 2, meshed.triangles)>>}
          ELSE {})

ConvAnswers(meshed) ==
    {Answer(tags, [i \in 1..Len(blocks) |-> Retag(blocks[i], tags)], FALSE) :
        tags \in Numberings(meshed.n), blocks \in ConvBlocks(meshed)}

ConvFrontalDelaunay2D ==
    /\ pc = "idle"
    /\ \E edge_source \in MeshSources2D, target_sizes \in MeshSizes, recombine \in BOOLEAN,
          fault \in MeshFaults :
          \E lib \in ConvAnswers(Meshed(edge_source, target_sizes, FALSE)) :
            Finish("frontal_delaunay_2d", edge_source, target_sizes, recombine, fault, lib,
                   frontal_delaunay_2d(edge_source, target_sizes, recombine, fault, lib))
    /\ UNCHANGED objs
    /\ UNCHANGED tools

NextConv == ConvFrontalDelaunay2D \/ CallerContinues

SpecConv == Init /\ [][NextConv]_vars

----------------------------------------------------------------------------
(* C23: for every kernel result that passes the assertions on increasing   *)
(* tags, each point index of every cell of the mesh generate_mesh returns  *)
(* is at least 0 and smaller than the number of points, and index k is the *)
(* k-th row of the points, the node whose kernel tag is k + 1.             *)
C23_IndexDenotesNodeOfTag ==
    (ConversionReached /\ outcome = "returned") =>
        \A c \in CellsGenerated : \A j \in 1..Len(c.pts) :
            /\ 0 <= c.pts[j]
            /\ c.pts[j] < Generated.n_points
            /\ call.lib.node_tags[c.pts[j] + 1] = c.pts[j] + 1

(* C24: generate_mesh neither drops nor duplicates elements: every element *)
(* of the kernel's answer is exactly one cell of the mesh it returns, also *)
(* when the answer holds elements of one type in more than one block.      *)
C24_EveryElementIsOneCell ==
    (ConversionReached /\ outcome = "returned") =>
        /\ \A e \in ElementsOfCodes(DOMAIN gmsh_to_pyvista_type) :
              [type |-> gmsh_to_pyvista_type[e[1].type], pts |-> NodeIndices(e[1], e[2])]
                  \in CellsGenerated
        /\ Len(Generated.cells) = Cardinality(ElementsOfCodes(DOMAIN gmsh_to_pyvista_type))

----------------------------------------------------------------------------
(* A caller that builds a GeoMesher on a geodataframe and has it prepare   *)
(* the cell size, as generate and generate_mesh do.  The constructor reads *)
(* nothing but its arguments, so the caller builds one object.             *)
MaxRows == 2
GeometryTypes == {"Polygon", "MultiPolygon", "Point"}
Boxes == {<<0, 0, 50, 100>>, <<50, 0, 200, 50>>}
ColumnValues == {NaN, PyFloat(1), PyFloat(5)}
GeoRows ==
    {[type |-> t, bounds |-> b, cellsize |-> c] :
        t \in GeometryTypes, b \in Boxes, c \in ColumnValues}
GeoDataFrames ==
    {GeoDataFrame(rows, {"geometry", "cellsize"}) :
        rows \in UNION {[1..n -> GeoRows] : n \in 1..MaxRows}}
    \cup {GeoDataFrame([i \in 1..Len(rows) |-> [rows[i] EXCEPT !.cellsize = NaN]], {"geometry"}) :
            rows \in UNION {[1..n -> {r \in GeoRows : r.cellsize = NaN}] : n \in 1..MaxRows}}
DefaultCellSizes == {PyNone, PyFloat(3)}

NewGeoMesher ==
    /\ pc = "idle"
    /\ geo = NoGeoCall
    /\ manager = NoManager
    /\ legacy = NoLegacyCall
    /\ \E geodataframe \in GeoDataFrames, default_cellsize \in DefaultCellSizes :
         LET result == GeoMesher_init(geodataframe, "cellsize", default_cellsize)
         IN geo' = [given |-> geodataframe, caller |-> result.geodataframe,
                    default_cellsize |-> default_cellsize,
                    self |-> result.self, exc |-> result.exc, cell_sizes |-> PyNone]
    /\ UNCHANGED <<pc, active, call, trace, outcome, reinit, mesh, objs, ctor, manager, legacy>>

PrepareGeometry ==
    /\ pc = "idle"
    /\ geo.self.made
    /\ geo' = [geo EXCEPT !.cell_sizes = prepare_geometry_cell_sizes(geo.self)]
    /\ UNCHANGED <<pc, active, call, trace, outcome, reinit, mesh, objs, ctor, manager, legacy>>

NextGeo == NewGeoMesher \/ PrepareGeometry

SpecGeo == Init /\ [][NextGeo]_vars

----------------------------------------------------------------------------
(* The larger of the x and y extents of all the geometries of a frame.     *)
LargerExtent(frame) ==
    LET xs == UNION {{frame.rows[i].bounds[1], frame.rows[i].bounds[3]} : i \in 1..Len(frame.rows)}
        ys == UNION {{frame.rows[i].bounds[2], frame.rows[i].bounds[4]} : i \in 1..Len(frame.rows)}
    IN Max(SetMax(xs) - SetMin(xs), SetMax(ys) - SetMin(ys))

----------------------------------------------------------------------------
(* A caller that works with a Geometry2D object: it adds elements, saves   *)
(* them to the virtual file, loads its own or another file, and reads the  *)
(* content of the virtual file.                                            *)
MaxElements == 3
OtherFiles ==
    {StringIO(<<Header, <<Word("Point"), Num(2)>> \o Nums(<<0, 0, 0, 1>>)>>, 0),
     StringIO(<<<<Word(" "), Word("Point"), Num(1)>> \o Nums(<<0, 0, 0, 1>>) \o <<Word(" ")>>,
                <<>>, <<Word(" "), Word("//"), Word("comment")>>,
                <<Word("Line"), Num(2), Num(1), Num(1)>>>>, 0)}

MaxReads == 2
OnlyManager ==
    /\ pc = "idle"
    /\ UNCHANGED <<pc, active, call, trace, outcome, reinit, mesh, objs, ctor, geo, legacy>>
Did(op, self, saved) ==
    /\ manager' = [made |-> TRUE, self |-> self, last |-> op, saved |-> saved,
                   reads |-> 0, content |-> <<>>]
    /\ OnlyManager

NewGeometry2D ==
    /\ ~manager.made
    /\ Did("init", Geometry2D_init, FALSE)

AddPointToGeometry ==
    /\ manager.made /\ Len(manager.self.elements) < MaxElements
    /\ Did("add", add_point(manager.self, 0, 0, 0, 1), FALSE)

AddLineToGeometry ==
    /\ manager.made /\ Len(manager.self.elements) < MaxElements
    /\ Did("add", add_line(manager.self, 1, 2), FALSE)

AddCircleToGeometry ==
    /\ manager.made /\ Len(manager.self.elements) < MaxElements
    /\ Did("add", add_circle(manager.self, 1, 2, 3), FALSE)

AddSurfaceToGeometry ==
    /\ manager.made /\ Len(manager.self.elements) + 1 < MaxElements
    /\ Did("add_surface", add_surface(manager.self, <<1>>), FALSE)

AddPhysicalGroupToGeometry ==
    /\ manager.made /\ Len(manager.self.elements) < MaxElements
    /\ \E dimension \in 1..2, name \in {"None", "group"} :
          Did("add", add_physical_group(manager.self, dimension, <<1>>, name), FALSE)

ToVirtualFile ==
    /\ manager.made
    /\ Did("to_virtual_file", to_virtual_file(manager.self), TRUE)

FromOwnVirtualFile ==
    /\ manager.made
    /\ Did("from_own_virtual_file",
           from_virtual_file(manager.self, manager.self.virtual_file, TRUE), manager.saved)

FromOtherVirtualFile ==
    /\ manager.made
    /\ \E file \in OtherFiles :
          Did("from_virtual_file", from_virtual_file(manager.self, file, FALSE), FALSE)

GetVirtualFileContent ==
    /\ manager.made /\ manager.reads < MaxReads
    /\ LET result == get_virtual_file_content(manager.self)
       IN manager' = [made |-> TRUE, self |-> result.self,
                      last |-> "get_virtual_file_content", saved |-> manager.saved,
                      reads |-> manager.reads + 1, content |-> result.content]
    /\ OnlyManager

NextGeometry ==
    \/ NewGeometry2D \/ AddPointToGeometry \/ AddLineToGeometry \/ AddCircleToGeometry
    \/ AddSurfaceToGeometry \/ AddPhysicalGroupToGeometry
    \/ ToVirtualFile \/ FromOwnVirtualFile \/ FromOtherVirtualFile
    \/ GetVirtualFileContent

SpecGeometry == Init /\ [][NextGeometry]_vars

(* The kind and the id of an element, as its text shows them: kind(id).    *)
Kind(element) == element[1].text
Id(element) == element[2].num

(* C26: after any sequence of add_point, add_line, add_circle,             *)
(* add_surface, add_physical_group and from_virtual_file calls no two      *)
(* elements of the same kind carry the same id, and the Plane Surface      *)
(* written by add_surface references the id of the Line Loop written       *)
(* immediately before it.                                                  *)
C26_UniqueIdsAndSurfaceLoop ==
    LET elements == manager.self.elements
        n == Len(elements)
    IN /\ \A i, j \in 1..n :
            (i # j /\ Kind(elements[i]) = Kind(elements[j]))
                => Id(elements[i]) # Id(elements[j])
       /\ manager.last = "add_surface" =>
            /\ Kind(elements[n]) = "Plane Surface"
            /\ Kind(elements[n - 1]) = "Line Loop"
            /\ elements[n][3].num = Id(elements[n - 1])

(* The part of C26 about add_surface alone.                                *)
SurfaceReferencesItsLoop ==
    LET elements == manager.self.elements
        n == Len(elements)
    IN manager.last = "add_surface" =>
            /\ Kind(elements[n]) = "Plane Surface"
            /\ Kind(elements[n - 1]) = "Line Loop"
            /\ elements[n][3].num = Id(elements[n - 1])

(* A reachable state: two physical groups of one dimension, written by     *)
(* add_physical_group.                                                     *)
TwoGroupsOfOneDimension ==
    LET elements == manager.self.elements
    IN /\ Len(elements) = 2
       /\ Kind(elements[1]) = "Physical Group" /\ Kind(elements[2]) = "Physical Group"
       /\ Id(elements[1]) = Id(elements[2])

(* A reachable state: a loaded Point(2) followed by an added Point(2).     *)
LoadedThenAddedPoint ==
    LET elements == manager.self.elements
    IN /\ Len(elements) = 2 /\ manager.last = "add"
       /\ Kind(elements[1]) = "Point" /\ Kind(elements[2]) = "Point"
       /\ Id(elements[1]) = 2 /\ Id(elements[2]) = 2

(* to_virtual_file followed by from_virtual_file on the object's own       *)
(* virtual file leaves the element list unchanged, same elements in the    *)
(* same order, and to_virtual_file a second time changes nothing.          *)
RoundTrip ==
    /\ (manager.last = "to_virtual_file" /\ manager'.last = "from_own_virtual_file")
            => manager'.self.elements = manager.self.elements
    /\ (manager.last = "to_virtual_file" /\ manager'.last = "to_virtual_file")
            => manager'.self = manager.self

(* C27: the round trip keeps the element list, to_virtual_file is          *)
(* idempotent, and get_virtual_file_content returns the header line        *)
(* followed by one line per element, however often it was read before.     *)
C27_RoundTripOfVirtualFile ==
    [][/\ RoundTrip
       /\ manager'.last = "get_virtual_file_content"
            => manager'.content = <<Header>> \o manager.self.elements]_vars

(* C27, amended: the round trip keeps the element list, to_virtual_file is *)
(* idempotent, and get_virtual_file_content returns the virtual file as it *)
(* is, however often it was read before: nothing before the first          *)
(* to_virtual_file, and the header line followed by one line per element   *)
(* once to_virtual_file has run and the elements have not changed since.   *)
C27_ContentIsTheSavedFile ==
    [][/\ RoundTrip
       /\ manager'.last = "get_virtual_file_content"
            => /\ manager'.content = manager.self.virtual_file.lines
               /\ manager.saved => manager'.content = <<Header>> \o manager.self.elements
               /\ \/ manager'.content = <<>>
                  \/ /\ Head(manager'.content) = Header
                     /\ ReadElements(manager'.content) = Tail(manager'.content)]_vars

(* The saved file of two or more elements has been read twice in a row.    *)
C27_Witness ==
    /\ manager.saved /\ manager.last = "get_virtual_file_content"
    /\ manager.reads = 2
    /\ Len(manager.self.elements) >= 2
    /\ manager.content = <<Header>> \o manager.self.elements
    /\ manager.self.virtual_file.pos = Len(manager.self.elements) + 1

----------------------------------------------------------------------------
(* A caller of the legacy pvgmsh.delaunay_2d: poly data of up to MaxCells  *)
(* cells, quads and others, and a kernel or a reader that fails in one of  *)
(* the cells or in none.  entered records whether a session was active     *)
(* when the call began.                                                    *)
MaxCells == 3
CellTypes == {"QUAD", "TRIANGLE", "LINE"}
RECURSIVE CellsOfLength(_)
CellsOfLength(n) ==
    IF n = 0 THEN {<<>>}
    ELSE {Append(cells, type_) : cells \in CellsOfLength(n - 1), type_ \in CellTypes}
LegacySources == UNION {CellsOfLength(n) : n \in 0..MaxCells}
LegacySizes == {PyFloat(1), PyFloat(2)}
LegacyFaults(edge_source) ==
    {NoFault} \cup
    [cell : {i \in 1..Len(edge_source) : edge_source[i] = "QUAD"},
     op : {"add_point", "add_line", "add_curve_loop", "add_plane_surface",
           "synchronize", "generate", "write", "read"}]

CallLegacyDelaunay2D ==
    /\ pc = "idle"
    /\ \E edge_source \in LegacySources, size \in LegacySizes :
        \E fault \in LegacyFaults(edge_source) :
          LET result == delaunay_2d(edge_source, size, fault)
          IN /\ legacy' = [called |-> TRUE, edge_source |-> edge_source, size |-> size,
                           fault |-> fault, entered |-> active,
                           value |-> result.value, by |-> result.by]
             /\ trace' = result.trace
             /\ outcome' = IF result.exc = "none" THEN "returned" ELSE result.exc
             /\ reinit' = (active /\ \E i \in 1..Len(result.trace) :
                                        result.trace[i].op = "initialize")
             /\ active' = SessionAfter(active, result.trace)
             /\ pc' = "done"
    /\ UNCHANGED <<call, mesh, objs, ctor, geo, manager>>

NextLegacy == CallLegacyDelaunay2D \/ CallerContinues
SpecLegacy == Init /\ [][NextLegacy]_vars

(* The cells of an edge source that are quads, in input order.             *)
QuadCells(edge_source) ==
    SelectSeq([i \in 1..Len(edge_source) |-> i], LAMBDA i : edge_source[i] = "QUAD")
Count(events, op) == Cardinality({i \in 1..Len(events) : events[i].op = op})

(* What a returned call has done: one initialize, clear and finalize per   *)
(* quad cell, each session closed before the next is opened; no kernel     *)
(* call for the other cells; a single mesh for an edge source of one quad  *)
(* cell and a list of the meshes of the quad cells otherwise.              *)
PairedPerQuadCell ==
    LET quads == QuadCells(legacy.edge_source)
        sessions == {i \in 1..Len(trace) : trace[i].op = "initialize"}
        n == Len(QuadBlock(legacy.size))
    IN /\ Count(trace, "initialize") = Len(quads)
       /\ Count(trace, "clear") = Len(quads)
       /\ Count(trace, "finalize") = Len(quads)
       /\ \A i \in sessions :
            /\ i + n + 1 <= Len(trace)
            /\ trace[i + n] = Clear
            /\ trace[i + n + 1] = Finalize
            /\ \A j \in (i + 1)..(i + n) : trace[j].op \notin {"initialize", "finalize"}
       /\ \A i \in 1..Len(trace) : legacy.edge_source[legacy.by[i]] = "QUAD"
       /\ IF legacy.edge_source = <<"QUAD">> THEN legacy.value = Mesh(1)
          ELSE legacy.value = Meshes(quads)

(* C28: when the legacy delaunay_2d returns, the kernel has been           *)
(* initialized once and cleared and finalized once for every quad cell,    *)
(* with one cell as with several, so that no session is active; the other  *)
(* cells have caused no kernel call; the result is a single mesh when the  *)
(* edge source has exactly one cell and that cell is a quad, and otherwise *)
(* a list with one mesh per quad cell in input order.                      *)
C28_LegacyDelaunay2D ==
    (legacy.called /\ pc = "done" /\ outcome = "returned") =>
        (PairedPerQuadCell /\ ~active)

(* The same for the calls that begin without an active session.            *)
ReturnsWithoutSessionWhenEnteredWithout ==
    (legacy.called /\ pc = "done" /\ outcome = "returned" /\ ~legacy.entered) =>
        (PairedPerQuadCell /\ ~active)

(* The pairing alone, for every call that returns.                         *)
ReturnedCallsArePaired ==
    (legacy.called /\ pc = "done" /\ outcome = "returned") => PairedPerQuadCell

(* A raised call leaves the session it opened behind.                      *)
RaisedCallsLeaveNoSession ==
    (legacy.called /\ pc = "done" /\ outcome \notin {"none", "returned"}) => ~active

(* A reachable state: a call on a triangle between two quads has returned  *)
(* the list of the two meshes.                                             *)
ReturnedTwoMeshes ==
    /\ legacy.called /\ pc = "done" /\ outcome = "returned"
    /\ legacy.edge_source = <<"QUAD", "TRIANGLE", "QUAD">>
    /\ legacy.value = Meshes(<<1, 3>>)
    /\ Count(trace, "finalize") = 2

============================================================================
